---- MODULE Spec2Model ----
(***************************************************************************)
(* Verification model of the leveraged-ETF data pipeline of mmr-strategy:  *)
(* the return decomposition (merge_and_calculate, recalc_rates_full), the  *)
(* leveraged return model (simulate_leveraged_etf_from_underlying), the    *)
(* continuity splicer (adjust_real_soxl_to_simulated) and the merge and    *)
(* rate recomputation of download_complete_data.                           *)
(*                                                                         *)
(* Numbers.  The Python code computes on binary64 floats.  The model       *)
(* computes the same expressions on exact rationals (arbitrary-precision   *)
(* numerator and denominator), so the only rounding in the model is the    *)
(* rounding the code asks for: round(x, 6).  A rational is a record        *)
(* [s, n, d]: sign s in {-1,0,1}, numerator n and denominator d naturals.  *)
(* Zero is always RZero; literals and rounded values are in lowest terms,  *)
(* so two rounded values are equal exactly when their records are; other   *)
(* values are compared with RCmp.  A natural is a little-endian sequence   *)
(* of limbs in base 10^3 without leading zero limbs (the empty sequence is *)
(* 0), because the model checker's own integers are 32-bit.                *)
(***************************************************************************)
EXTENDS Integers, Sequences, FiniteSets, TLC

----------------------------------------------------------------------------
(* Arbitrary-precision naturals                                            *)

Base == 10 ^ 3

\* limb i of a; the limbs outside a are 0
Limb(a, i) == IF 1 <= i /\ i <= Len(a) THEN a[i] ELSE 0

\* index of the highest nonzero limb of a, 0 if there is none
NTop(a) ==
  IF \A i \in 1..Len(a) : a[i] = 0 THEN 0
  ELSE CHOOSE i \in 1..Len(a) : a[i] # 0 /\ \A j \in (i + 1)..Len(a) : a[j] = 0

NStrip(a) == SubSeq(a, 1, NTop(a))

RECURSIVE NFromInt(_)
NFromInt(k) == IF k = 0 THEN <<>> ELSE <<k % Base>> \o NFromInt(k \div Base)

\* Adding limb sequences: raw holds the sums of two limbs, and the carry
\* into limb i is decided by the nearest limb below i whose sum is not
\* Base - 1.
NCarryIn(raw, i) ==
  \E j \in 1..(i - 1) : raw[j] >= Base /\ \A k \in (j + 1)..(i - 1) : raw[k] = Base - 1
NCarried(raw, n) ==
  NStrip(SubSeq([i \in 1..n |-> (raw[i] + (IF NCarryIn(raw, i) THEN 1 ELSE 0)) % Base], 1, n))

NAddLen(a, b) == (IF Len(a) > Len(b) THEN Len(a) ELSE Len(b)) + 1

NAdd(a, b) == NCarried([i \in 1..NAddLen(a, b) |-> Limb(a, i) + Limb(b, i)], NAddLen(a, b))

\* Subtracting: raw holds the differences of two limbs, and limb i borrows
\* when the nearest limb below i whose difference is not 0 is negative.
NBorrowIn(raw, i) ==
  \E j \in 1..(i - 1) : raw[j] < 0 /\ \A k \in (j + 1)..(i - 1) : raw[k] = 0
NBorrowed(raw, n) ==
  NStrip(SubSeq([i \in 1..n |-> (raw[i] - (IF NBorrowIn(raw, i) THEN 1 ELSE 0)) % Base], 1, n))

\* a - b for a >= b
NSub(a, b) == NBorrowed([i \in 1..Len(a) |-> a[i] - Limb(b, i)], Len(a))

NCmpAt(a, b, i) == IF a[i] > b[i] THEN 1 ELSE -1

\* -1, 0 or 1 as a < b, a = b or a > b
NCmp(a, b) ==
  IF Len(a) > Len(b) THEN 1
  ELSE IF Len(a) < Len(b) THEN -1
  ELSE IF \A i \in 1..Len(a) : a[i] = b[i] THEN 0
  ELSE NCmpAt(a, b, CHOOSE i \in 1..Len(a) :
                      a[i] # b[i] /\ \A j \in (i + 1)..Len(a) : a[j] = b[j])

NShift(a, k) == [i \in 1..k |-> 0] \o a

\* Multiplying: column i of the schoolbook product is the sum of the limb
\* products a[j] * b[i - j + 1]; a column is below Base^3, and its three
\* limbs go to the limbs i, i + 1 and i + 2 of the product.
RECURSIVE NColumnSum(_, _, _, _, _)
NColumnSum(a, b, i, lo, hi) ==
  IF lo > hi THEN 0
  ELSE IF lo = hi THEN a[lo] * b[i - lo + 1]
  ELSE NColumnSum(a, b, i, lo, (lo + hi) \div 2)
       + NColumnSum(a, b, i, (lo + hi) \div 2 + 1, hi)
NColumn(a, b, i) ==
  NColumnSum(a, b, i, IF i > Len(b) THEN i - Len(b) + 1 ELSE 1,
                      IF i < Len(a) THEN i ELSE Len(a))
NColumnLimbs(cols, n, unit) == SubSeq([i \in 1..n |-> (cols[i] \div unit) % Base], 1, n)
NColumns(cols, n) ==
  NAdd(NAdd(NColumnLimbs(cols, n, 1), NShift(NColumnLimbs(cols, n, Base), 1)),
       NShift(NColumnLimbs(cols, n, Base * Base), 2))
NProduct(a, b, n) == NColumns(SubSeq([i \in 1..n |-> NColumn(a, b, i)], 1, n), n)

NOne == <<1>>

NMul(a, b) ==
  IF a = <<>> \/ b = <<>> THEN <<>>
  ELSE IF b = NOne THEN a
  ELSE IF a = NOne THEN b
  ELSE NProduct(a, b, Len(a) + Len(b))

\* a * k for one limb 0 <= k < Base
NMulS(a, k) == IF k = 0 THEN <<>> ELSE NMul(a, <<k>>)

\* the limbs i, i - 1 and i - 2 of a as an integer
NTop3(a, i) == (Limb(a, i) * Base + Limb(a, i - 1)) * Base + Limb(a, i - 2)

\* the largest q in lo..hi with b * q <= r, for hi <= lo + 2 and b * lo <= r
NQPick(r, b, lo, hi) ==
  IF lo = hi THEN lo
  ELSE IF NCmp(NMulS(b, hi), r) <= 0 THEN hi
  ELSE IF lo = hi - 1 THEN lo
  ELSE IF NCmp(NMulS(b, hi - 1), r) <= 0 THEN hi - 1
  ELSE lo

\* one limb of a quotient: the largest q with b * q <= r, for r < b * Base.
\* The leading limbs of r and b bound q within two.
NQBound(r, b, r3, b2) ==
  NQPick(r, b, r3 \div (b2 + 1),
         IF (r3 + 1) \div b2 > Base - 1 THEN Base - 1 ELSE (r3 + 1) \div b2)

NQuot(r, b) ==
  IF NCmp(r, b) < 0 THEN 0
  ELSE NQBound(r, b, NTop3(r, Len(b) + 1), NTop3(b, Len(b) + 1))

\* value of the two lowest limbs of a as an integer
NSmall(a) == Limb(a, 1) + Base * Limb(a, 2)

\* one step of the long division: the quotient limb q of r1 and the rest
NDivTake(b, r1, q) == <<<<q>>, IF q = 0 THEN r1 ELSE NSub(r1, NMulS(b, q))>>
NDivLeaf(b, r1) == NDivTake(b, r1, NQuot(r1, b))

\* long division of the limbs hi, ..., lo of a into the remainder rem so
\* far: <<the quotient limbs most significant first, the remainder>>
RECURSIVE NDivRange(_, _, _, _, _)
NDivJoin(high_q, low) == <<high_q \o low[1], low[2]>>
NDivLow(a, b, lo, mid, high) == NDivJoin(high[1], NDivRange(a, b, lo, mid, high[2]))
NDivRange(a, b, lo, hi, rem) ==
  IF lo = hi THEN NDivLeaf(b, NStrip(<<a[lo]>> \o rem))
  ELSE NDivLow(a, b, lo, (lo + hi) \div 2,
               NDivRange(a, b, (lo + hi) \div 2 + 1, hi, rem))

NReverse(q) == [i \in 1..Len(q) |-> q[Len(q) - i + 1]]
NDivWhole(qr) == <<NStrip(NReverse(qr[1])), qr[2]>>

\* <<a div b, a mod b>> for b # 0: the leading Len(b) - 1 limbs of a are
\* the first remainder, the other limbs are divided in
NDivMod(a, b) ==
  IF NCmp(a, b) < 0 THEN <<<<>>, a>>
  ELSE NDivWhole(NDivRange(a, b, 1, Len(a) - Len(b) + 1,
                           SubSeq(a, Len(a) - Len(b) + 2, Len(a))))

----------------------------------------------------------------------------
(* Exact rationals                                                         *)

RZero == [s |-> 0, n |-> <<>>, d |-> NOne]

Sgn(k) == IF k > 0 THEN 1 ELSE IF k < 0 THEN -1 ELSE 0
Abs(k) == IF k < 0 THEN -k ELSE k

\* Euclid's algorithm on the pair ab of integers: at most n division steps,
\* taken in two halves
RECURSIVE IGcdSteps(_, _)
IGcdSteps(ab, n) ==
  IF ab[2] = 0 THEN ab
  ELSE IF n = 1 THEN <<ab[2], ab[1] % ab[2]>>
  ELSE IGcdSteps(IGcdSteps(ab, n \div 2), n - n \div 2)

\* gcd of integers below Base^3, which takes at most 44 division steps
IGcd(a, b) == IGcdSteps(<<a, b>>, 48)[1]

\* the integer k, and the fraction a / b of integers (b > 0) in lowest terms
RInt(k) == IF k = 0 THEN RZero ELSE [s |-> Sgn(k), n |-> NFromInt(Abs(k)), d |-> NOne]
FracBy(sign, a, b, g) == [s |-> sign, n |-> NFromInt(a \div g), d |-> NFromInt(b \div g)]
Frac(a, b) == IF a = 0 THEN RZero ELSE FracBy(Sgn(a), Abs(a), b, IGcd(Abs(a), b))

\* value of a natural of at most three limbs as an integer
NInt(a) == Limb(a, 1) + Base * (Limb(a, 2) + Base * Limb(a, 3))

\* the rational sign * n / d; it is put in lowest terms when n and d have
\* at most three limbs each
RSmall(sign, a, b) == FracBy(sign, a, b, IGcd(a, b))
RMake(sign, n, d) ==
  IF n = <<>> THEN RZero
  ELSE IF Len(n) <= 3 /\ Len(d) <= 3 THEN RSmall(sign, NInt(n), NInt(d))
  ELSE [s |-> sign, n |-> n, d |-> d]

RNeg(x) == [x EXCEPT !.s = -x.s]

\* xs * xn / d + ys * yn / d for xn, yn # 0; c compares xn with yn
RAddDiffer(xs, xn, ys, yn, d, c) ==
  IF c = 0 THEN RZero
  ELSE IF c > 0 THEN RMake(xs, NSub(xn, yn), d)
  ELSE RMake(ys, NSub(yn, xn), d)
RAddOver(xs, xn, ys, yn, d) ==
  IF xs = ys THEN RMake(xs, NAdd(xn, yn), d)
  ELSE RAddDiffer(xs, xn, ys, yn, d, NCmp(xn, yn))

RAdd(x, y) ==
  IF x.s = 0 THEN y
  ELSE IF y.s = 0 THEN x
  ELSE IF x.d = y.d THEN RAddOver(x.s, x.n, y.s, y.n, x.d)
  ELSE RAddOver(x.s, NMul(x.n, y.d), y.s, NMul(y.n, x.d), NMul(x.d, y.d))

RSub(x, y) == RAdd(x, RNeg(y))

RMul(x, y) ==
  IF x.s = 0 \/ y.s = 0 THEN RZero
  ELSE RMake(x.s * y.s, NMul(x.n, y.n), NMul(x.d, y.d))

\* x / y for y # 0 (the callers model ZeroDivisionError themselves).  A
\* numerator or denominator of y that divides the one of x is cancelled, so
\* that price * factor / price does not grow: qn and qd are the divisions
\* of x.n by y.n and of x.d by y.d.
RDivBy(x, y, qn, qd) ==
  RMake(x.s * y.s,
        NMul(IF qn[2] = <<>> THEN qn[1] ELSE x.n, IF qd[2] = <<>> THEN NOne ELSE y.d),
        NMul(IF qd[2] = <<>> THEN qd[1] ELSE x.d, IF qn[2] = <<>> THEN NOne ELSE y.n))
RDiv(x, y) ==
  IF x.s = 0 THEN RZero
  ELSE RDivBy(x, y, NDivMod(x.n, y.n), NDivMod(x.d, y.d))

\* -1, 0 or 1 as x < y, x = y or x > y
RCmp(x, y) ==
  IF x.s # y.s THEN Sgn(x.s - y.s)
  ELSE IF x.s = 0 THEN 0
  ELSE x.s * NCmp(NMul(x.n, y.d), NMul(y.n, x.d))

REq(x, y) == RCmp(x, y) = 0
RLt(x, y) == RCmp(x, y) < 0
RLe(x, y) == RCmp(x, y) <= 0
RAbs(x) == IF x.s < 0 THEN RNeg(x) ELSE x

ROne == RInt(1)
RHundred == RInt(100)

\* number of decimals the code rounds prices and rates to: round(x, 6)
RoundDigits == 6

RoundScale == 10^RoundDigits
RoundDivisors == {2^i * 5^j : i, j \in 0..RoundDigits}

\* the rational sign * m / RoundScale in lowest terms; low is m modulo
\* RoundScale and g the gcd of m and RoundScale
RoundReduce(sign, m, g) ==
  [s |-> sign,
   n |-> IF g = 1 THEN m ELSE NDivMod(m, NFromInt(g))[1],
   d |-> NFromInt(RoundScale \div g)]
RoundGcd(low) ==
  CHOOSE g \in RoundDivisors :
    low % g = 0 /\ \A e \in RoundDivisors : low % e = 0 => e <= g
RoundMake(sign, m) ==
  IF m = <<>> THEN RZero
  ELSE RoundReduce(sign, m, RoundGcd(NSmall(NDivMod(m, NFromInt(RoundScale))[2])))

\* Python round(x, 6): nearest multiple of 10^-6, ties to even.  q is the
\* floor of |x| * RoundScale and twice compares the rest with a half.
RoundNearest(sign, q, twice) ==
  RoundMake(sign, IF twice > 0 \/ (twice = 0 /\ Limb(q, 1) % 2 = 1)
                  THEN NAdd(q, NOne) ELSE q)
RoundHalves(x, qr) == RoundNearest(x.s, qr[1], NCmp(NAdd(qr[2], qr[2]), x.d))
Round6(x) ==
  IF x.s = 0 THEN RZero
  ELSE RoundHalves(x, NDivMod(NMul(x.n, NFromInt(RoundScale)), x.d))

----------------------------------------------------------------------------
(* Series, bars and Python values                                          *)

\* None and a present value of an optional argument
None == <<>>
Some(v) == <<v>>

\* the outcome of a call: a returned value, or the exception it raised
Returned(v) == [exc |-> "none", val |-> v]
Raised(e) == [exc |-> e, val |-> <<>>]

\* the empty dict {}
EmptySeries == <<>>

\* the elements of a set of integers in ascending order; a set without
\* gaps is the interval from its least element
RECURSIVE SortSet(_)
SortFrom(S, m) ==
  IF S = m..(m + Cardinality(S) - 1) THEN [i \in 1..Cardinality(S) |-> m + i - 1]
  ELSE <<m>> \o SortSet(S \ {m})
SortSet(S) ==
  IF S = {} THEN <<>>
  ELSE SortFrom(S, CHOOSE x \in S : \A y \in S : x <= y)

\* sorted(data.keys()): a series is a function from dates (integers, ordered
\* as the ISO date strings are) to bars; a bar is a record of its keys
SortedDates(data) == SortSet(DOMAIN data)

MaxOf(S) == CHOOSE x \in S : \A y \in S : y <= x
MinOf(S) == CHOOSE x \in S : \A y \in S : x <= y

\* dict.update / item assignment on a bar: the keys of upd are set, the
\* other keys of bar are kept
BarUpdate(bar, upd) ==
  [k \in DOMAIN bar \cup DOMAIN upd |-> IF k \in DOMAIN upd THEN upd[k] ELSE bar[k]]

\* an update that is dropped
SeriesKept(a, b) == a

\* dict.update on a series: the dates of b replace those of a
SeriesUpdate(a, b) ==
  [d \in DOMAIN a \cup DOMAIN b |-> IF d \in DOMAIN b THEN b[d] ELSE a[d]]

\* (a / b - 1) * 100 and (a - b) / b * 100, for b # 0
PctOf(a, b) == RMul(RSub(RDiv(a, b), ROne), RHundred)
PctDiff(a, b) == RMul(RDiv(RSub(a, b), b), RHundred)

\* 1 + rate/100, the factor of a rate in per cent
GrowthOf(rate) == RAdd(ROne, RDiv(rate, RHundred))

----------------------------------------------------------------------------
(* merge_and_calculate and recalc_rates_full: the return decomposition     *)

\* the combined rate as the sum of the two others
AddedRates(overnight_rate, day_rate, combined_rate) ==
  [overnight_rate |-> Round6(overnight_rate),
   day_rate       |-> Round6(day_rate),
   rate           |-> Round6(RAdd(overnight_rate, day_rate))]

MergeRates(overnight_rate, day_rate, combined_rate) ==
  [overnight_rate |-> Round6(overnight_rate),
   day_rate       |-> Round6(day_rate),
   rate           |-> Round6(combined_rate)]

\* the loop of merge_and_calculate from index i on; prev_close is None
\* before the first bar.  Division by a zero prev_close or open raises.
RECURSIVE MergeLoop(_, _, _, _)
MergeLoop(data_dict, sorted_dates, i, prev_close) ==
  IF i > Len(sorted_dates) THEN Returned(data_dict)
  ELSE LET date        == sorted_dates[i]
           close_value == data_dict[date].close
           open_value  == data_dict[date].open
       IN  IF (prev_close # None /\ prev_close[1].s = 0) \/ open_value.s = 0
           THEN Raised("ZeroDivisionError")
           ELSE LET overnight_rate == IF prev_close = None THEN RZero
                                      ELSE PctDiff(open_value, prev_close[1])
                    combined_rate  == IF prev_close = None THEN RZero
                                      ELSE PctDiff(close_value, prev_close[1])
                    day_rate       == PctDiff(close_value, open_value)
                    bar == BarUpdate(data_dict[date],
                                     MergeRates(overnight_rate, day_rate, combined_rate))
               IN  MergeLoop([data_dict EXCEPT ![date] = bar], sorted_dates,
                             i + 1, Some(close_value))

merge_and_calculate(data_dict) ==
  MergeLoop(data_dict, SortedDates(data_dict), 1, None)

\* recalc_rates_full: the same decomposition, with 0.0 in place of a rate
\* whose divisor is not positive
RecalcRates(o, c, prev_close) ==
  LET overnight == IF prev_close = None THEN RZero
                   ELSE IF prev_close[1].s > 0 THEN PctOf(o, prev_close[1]) ELSE RZero
      combined  == IF prev_close = None THEN RZero
                   ELSE IF prev_close[1].s > 0 THEN PctOf(c, prev_close[1]) ELSE RZero
      day_rate  == IF o.s > 0 THEN PctOf(c, o) ELSE RZero
  IN  MergeRates(overnight, day_rate, combined)

\* the series as it came
RecalcNothing(data, dates, i, prev_close) == data

RECURSIVE RecalcLoop(_, _, _, _)
RecalcLoop(data, dates, i, prev_close) ==
  IF i > Len(dates) THEN data
  ELSE LET d == dates[i]
           bar == BarUpdate(data[d], RecalcRates(data[d].open, data[d].close, prev_close))
       IN  RecalcLoop([data EXCEPT ![d] = bar], dates, i + 1, Some(data[d].close))

recalc_rates_full(data) ==
  IF DOMAIN data = {} THEN Returned(EmptySeries)
  ELSE Returned(RecalcLoop(data, SortedDates(data), 1, None))

----------------------------------------------------------------------------
(* daily_update.calculate_metrics: rates and SMA200 of the new dates       *)

\* the window of the moving average
SMAWindow == 200

\* close_prices = [all_data[date]["close"] for date in sorted_dates]
ClosePrices(all_data, sorted_dates) ==
  [i \in 1..Len(sorted_dates) |-> all_data[sorted_dates[i]].close]

\* sum(xs[lo..hi]), by halves
RECURSIVE RSumRange(_, _, _)
RSumRange(xs, lo, hi) ==
  IF lo > hi THEN RZero
  ELSE IF lo = hi THEN xs[lo]
  ELSE RAdd(RSumRange(xs, lo, (lo + hi) \div 2),
            RSumRange(xs, (lo + hi) \div 2 + 1, hi))

\* sma200 of the bar at position i (from 1): None for the first 199 bars,
\* else sum(close_prices[i - 199 : i + 1]) / 200 in Python's indices
Sma200(close_prices, i) ==
  IF i < SMAWindow THEN None
  ELSE Some(RDiv(RSumRange(close_prices, i - SMAWindow + 1, i), RInt(SMAWindow)))

\* sma200 if sma200 is not None else close_value
SmaOrClose(sma200, close_value) == IF sma200 # None THEN sma200[1] ELSE close_value

\* abs(open_value - prev_close) / prev_close > 0.3, for prev_close # 0
SplitSuspected(open_value, prev_close) ==
  RLt(Frac(3, 10), RDiv(RAbs(RSub(open_value, prev_close)), prev_close))

\* the previous close when the previous date is not a new one: the stored
\* close, or on a suspected split the close the API returns for that date
\* (api_data is empty when the request fails or raises)
SplitAdjusted(prev_close, open_value, prev_date, api_data) ==
  IF SplitSuspected(open_value, prev_close) /\ prev_date \in DOMAIN api_data
  THEN api_data[prev_date].close
  ELSE prev_close

\* the fields written on a new date
MetricsUpdate(open_value, close_value, prev_close, sma200) ==
  [overnight_rate |-> IF prev_close = None THEN RZero
                      ELSE PctDiff(open_value, prev_close[1]),
   day_rate       |-> PctDiff(close_value, open_value),
   rate           |-> IF prev_close = None THEN RZero
                      ELSE PctDiff(close_value, prev_close[1]),
   sma200         |-> SmaOrClose(sma200, close_value)]

\* the previous close of position i > 1: Raised when the split check
\* divides by a stored close of zero
MetricsPrevClose(all_data, new_data, sorted_dates, i, api_data) ==
  LET prev_date == sorted_dates[i - 1]
  IN  IF prev_date \in DOMAIN new_data THEN Returned(new_data[prev_date].close)
      ELSE IF all_data[prev_date].close.s = 0 THEN Raised("ZeroDivisionError")
      ELSE Returned(SplitAdjusted(all_data[prev_date].close,
                                  all_data[sorted_dates[i]].open, prev_date, api_data))

\* the first position after i whose date is a new one, or the position
\* after the last
NextNew(new_data, sorted_dates, i) ==
  MinOf({j \in (i + 1)..Len(sorted_dates) : sorted_dates[j] \in DOMAIN new_data}
          \cup {Len(sorted_dates) + 1})

RECURSIVE MetricsLoop(_, _, _, _, _, _)
MetricsStep(all_data, new_data, sorted_dates, close_prices, i, api_data, prev) ==
  LET date == sorted_dates[i]
  IN  IF prev.exc # "none" THEN prev
      ELSE IF (i > 1 /\ prev.val.s = 0) \/ all_data[date].open.s = 0
      THEN Raised("ZeroDivisionError")
      ELSE MetricsLoop([all_data EXCEPT ![date] =
                          BarUpdate(all_data[date],
                                    MetricsUpdate(all_data[date].open, all_data[date].close,
                                                  IF i = 1 THEN None ELSE Some(prev.val),
                                                  Sma200(close_prices, i)))],
                       new_data, sorted_dates, close_prices, i + 1, api_data)

\* the loop over sorted_dates from position i on; only new dates are
\* processed: the loop goes on at the next position that has one
MetricsLoop(all_data, new_data, sorted_dates, close_prices, i, api_data) ==
  IF i > Len(sorted_dates) THEN Returned(all_data)
  ELSE IF sorted_dates[i] \notin DOMAIN new_data
  THEN MetricsLoop(all_data, new_data, sorted_dates, close_prices,
                   NextNew(new_data, sorted_dates, i), api_data)
  ELSE MetricsStep(all_data, new_data, sorted_dates, close_prices, i, api_data,
                   IF i = 1 THEN Returned(RZero)
                   ELSE MetricsPrevClose(all_data, new_data, sorted_dates, i, api_data))

MetricsAll(all_data, new_data, sorted_dates, api_data) ==
  MetricsLoop(all_data, new_data, sorted_dates,
              ClosePrices(all_data, sorted_dates), 1, api_data)

\* api_data: what get_latest_data_twelvedata returns when the split check
\* asks for the previous date
calculate_metrics(existing_data, new_data, api_data) ==
  MetricsAll(SeriesUpdate(existing_data, new_data), new_data,
             SortedDates(SeriesUpdate(existing_data, new_data)), api_data)

----------------------------------------------------------------------------
(* simulate_leveraged_etf_from_underlying: the leveraged return model      *)
(* The arguments are a record p with the function's keyword parameters;    *)
(* calibrate_with_real is a series (None and {} are both the empty one).   *)

\* default arguments of the signature
DefaultLeverage == RInt(3)
DefaultAnnualExpenseRatio == Frac(95, 10000)
DefaultTradingDaysPerYear == RInt(252)
DefaultTrimFraction == Frac(5, 100)
DefaultMaxAbsTrackingError == Frac(2, 10000)
DefaultBorrowCost == Frac(1, 100)

DefaultParams ==
  [leverage |-> DefaultLeverage,
   annual_expense_ratio |-> DefaultAnnualExpenseRatio,
   trading_days_per_year |-> DefaultTradingDaysPerYear,
   starting_price |-> None,
   tracking_error_daily |-> None,
   calibrate_with_real |-> EmptySeries,
   calibration_method |-> "trimmed",
   trim_fraction |-> DefaultTrimFraction,
   max_abs_tracking_error |-> DefaultMaxAbsTrackingError,
   additional_annual_borrow_cost |-> DefaultBorrowCost,
   extra_daily_drift |-> RZero]

\* a start at the first underlying close itself
StartAtUnderlying(first_close_under, p) == first_close_under

\* start_close: the first underlying close times leverage unless overridden
StartClose(first_close_under, p) ==
  IF p.starting_price = None THEN RMul(first_close_under, p.leverage)
  ELSE p.starting_price[1]

FeeDaily(p) == RDiv(p.annual_expense_ratio, p.trading_days_per_year)

BorrowFeeDaily(p) ==
  IF p.additional_annual_borrow_cost.s > 0
  THEN RDiv(p.additional_annual_borrow_cost, p.trading_days_per_year)
  ELSE RZero

\* [d for d in dates if d in calibrate_with_real][1:]
RECURSIVE FilterIn(_, _)
FilterIn(dates, S) ==
  IF dates = <<>> THEN <<>>
  ELSE IF dates[1] \in S THEN <<dates[1]>> \o FilterIn(Tail(dates), S)
  ELSE FilterIn(Tail(dates), S)

Overlaps(dates, calibrate_with_real) ==
  LET both == FilterIn(dates, DOMAIN calibrate_with_real)
  IN  IF both = <<>> THEN <<>> ELSE Tail(both)

\* the residual loop: diffs collected over overlaps from index i on
RECURSIVE DiffLoop(_, _, _, _, _, _, _)
DiffLoop(underlying_data, real, overlaps, i, prev_u, prev_real, p) ==
  IF i > Len(overlaps) THEN Returned(<<>>)
  ELSE LET d     == overlaps[i]
           u_now == underlying_data[d].close
       IN  IF prev_u.s = 0 THEN Raised("ZeroDivisionError")
           ELSE LET r_u == RSub(RDiv(u_now, prev_u), ROne)
                IN  IF prev_real # None /\ d \in DOMAIN real
                    THEN IF prev_real[1].s = 0 THEN Raised("ZeroDivisionError")
                         ELSE LET real_now == real[d].close
                                  r_real == RSub(RDiv(real_now, prev_real[1]), ROne)
                                  expected_no_te == RSub(RMul(p.leverage, r_u), FeeDaily(p))
                                  rest == DiffLoop(underlying_data, real, overlaps, i + 1,
                                                   u_now, Some(real_now), p)
                              IN  IF rest.exc # "none" THEN rest
                                  ELSE Returned(<<RSub(r_real, expected_no_te)>> \o rest.val)
                    ELSE DiffLoop(underlying_data, real, overlaps, i + 1, u_now, prev_real, p)

CalibrationDiffs(underlying_data, dates, p) ==
  LET real  == p.calibrate_with_real
      first == dates[1]
  IN  DiffLoop(underlying_data, real, Overlaps(dates, real), 1,
               underlying_data[first].close,
               IF first \in DOMAIN real THEN Some(real[first].close) ELSE None, p)

\* sorted(diffs)
RECURSIVE RInsert(_, _)
RInsert(x, sorted) ==
  IF sorted = <<>> THEN <<x>>
  ELSE IF RLe(x, sorted[1]) THEN <<x>> \o sorted
  ELSE <<sorted[1]>> \o RInsert(x, Tail(sorted))

RECURSIVE RSort(_)
RSort(xs) == IF xs = <<>> THEN <<>> ELSE RInsert(xs[1], RSort(Tail(xs)))

RECURSIVE RSum(_)
RSum(xs) == IF xs = <<>> THEN RZero ELSE RAdd(xs[1], RSum(Tail(xs)))

RMean(xs) == RDiv(RSum(xs), RInt(Len(xs)))

\* int(x) for x >= 0 below Base
IntFloor(x) == IF x.s = 0 THEN 0 ELSE NSmall(NDivMod(x.n, x.d)[1])

Median(sorted_diffs) ==
  LET mid == Len(sorted_diffs) \div 2
  IN  IF Len(sorted_diffs) % 2 = 1 THEN sorted_diffs[mid + 1]
      ELSE RDiv(RAdd(sorted_diffs[mid], sorted_diffs[mid + 1]), RInt(2))

\* core = sorted_diffs[k:len - k] if k > 0 else sorted_diffs
TrimCore(sorted_diffs, k) ==
  IF k > 0 THEN SubSeq(sorted_diffs, k + 1, Len(sorted_diffs) - k) ELSE sorted_diffs

\* sum(core) / len(core) if core else 0.0
MeanOrZero(core) == IF core # <<>> THEN RMean(core) ELSE RZero

\* the mean of all the residuals, none trimmed
UntrimmedMean(sorted_diffs, trim_fraction) == RMean(sorted_diffs)

Trimmed(sorted_diffs, trim_fraction) ==
  MeanOrZero(TrimCore(sorted_diffs,
                      IntFloor(RMul(RInt(Len(sorted_diffs)), trim_fraction))))

\* the aggregate of the residuals by calibration_method, before the cap
AggregateSorted(sorted_diffs, p) ==
  IF p.calibration_method = "median" THEN Median(sorted_diffs)
  ELSE IF p.calibration_method = "trimmed" THEN Trimmed(sorted_diffs, p.trim_fraction)
  ELSE IF p.calibration_method = "mean" THEN RMean(sorted_diffs)
  ELSE RZero

Aggregate(diffs, p) == AggregateSorted(RSort(diffs), p)

\* the estimate used without a cap
UncappedTrackingError(te, max_abs_tracking_error) == te

\* cap the magnitude at max_abs_tracking_error
CapTrackingError(te, max_abs_tracking_error) ==
  IF RLt(max_abs_tracking_error, te) THEN max_abs_tracking_error
  ELSE IF RLt(te, RNeg(max_abs_tracking_error)) THEN RNeg(max_abs_tracking_error)
  ELSE te

\* the tracking error from the collected residuals (none collected: 0.0)
CalibrateFrom(diffs, p) ==
  IF diffs.exc # "none" THEN diffs
  ELSE IF diffs.val # <<>>
  THEN Returned(CapTrackingError(Aggregate(diffs.val, p), p.max_abs_tracking_error))
  ELSE Returned(RZero)

\* the tracking_error_daily the loop uses
CalibrateTrackingError(underlying_data, dates, p) ==
  IF p.tracking_error_daily = None /\ DOMAIN p.calibrate_with_real # {}
     /\ p.calibration_method # "none"
  THEN IF Overlaps(dates, p.calibrate_with_real) # <<>>
       THEN CalibrateFrom(CalibrationDiffs(underlying_data, dates, p), p)
       ELSE Returned(RZero)
  ELSE IF p.tracking_error_daily = None THEN Returned(RZero)
  ELSE Returned(p.tracking_error_daily[1])

\* the bar of the first date, and of a degenerate day
FlatBar(price) ==
  [open |-> Round6(price), close |-> Round6(price),
   overnight_rate |-> RZero, day_rate |-> RZero, rate |-> RZero]

\* a guard for the prices that are zero only
ZeroPrice(prev_close_u, o_u, c_u) == prev_close_u.s = 0 \/ o_u.s = 0 \/ c_u.s = 0

\* the guard of the loop body
Degenerate(prev_close_u, o_u, c_u) == prev_close_u.s <= 0 \/ o_u.s <= 0 \/ c_u.s <= 0

\* the move of the underlying itself
UnleveragedMove(price, r, tracking_error_daily, p) ==
  RMul(price, RAdd(RAdd(ROne, r), RDiv(tracking_error_daily, RInt(2))))

\* one leveraged phase: price * (1 + leverage * r + tracking_error_daily / 2)
LeveragedMove(price, r, tracking_error_daily, p) ==
  RMul(price, RAdd(RAdd(ROne, RMul(p.leverage, r)), RDiv(tracking_error_daily, RInt(2))))

\* a factor that is used as computed
UnflooredFeeFactor(total_fee_factor) == total_fee_factor

\* if total_fee_factor <= 0: total_fee_factor = 0.000001
FloorFeeFactor(total_fee_factor) ==
  IF total_fee_factor.s <= 0 THEN Frac(1, 1000000) ELSE total_fee_factor

TotalFeeFactor(p) == FloorFeeFactor(RSub(RSub(ROne, FeeDaily(p)), BorrowFeeDaily(p)))

\* the close left without costs
WithoutCosts(t_close_raw, p) == t_close_raw

\* t_close = t_close_raw * total_fee_factor * (1 + extra_daily_drift)
ApplyCosts(t_close_raw, p) ==
  RMul(RMul(t_close_raw, TotalFeeFactor(p)), RAdd(ROne, p.extra_daily_drift))

\* the bar stored for a regular day
DayBar(prev_close_t, t_open, t_close) ==
  [open           |-> Round6(t_open),
   close          |-> Round6(t_close),
   overnight_rate |-> Round6(PctOf(t_open, prev_close_t)),
   day_rate       |-> Round6(PctOf(t_close, t_open)),
   rate           |-> Round6(PctOf(t_close, prev_close_t))]

\* the outcome of a regular day: the rates divide by prev_close_t and t_open
DayOutcome(prev_close_t, prev_close_u, c_u, t_open, t_close) ==
  IF prev_close_t.s = 0 \/ t_open.s = 0
  THEN [exc |-> "ZeroDivisionError", bar |-> <<>>,
        prev_close_t |-> prev_close_t, prev_close_u |-> prev_close_u]
  ELSE [exc |-> "none", bar |-> DayBar(prev_close_t, t_open, t_close),
        prev_close_t |-> t_close, prev_close_u |-> c_u]

\* a day that charges the costs in both phases
CostsInBothPhases(prev_close_t, prev_close_u, u, t_open, tracking_error_daily, p) ==
  DayOutcome(prev_close_t, prev_close_u, u.close, ApplyCosts(t_open, p),
             ApplyCosts(LeveragedMove(ApplyCosts(t_open, p),
                                      RSub(RDiv(u.close, u.open), ROne),
                                      tracking_error_daily, p), p))

\* the intraday phase and the costs, from the leveraged open
DayFromOpen(prev_close_t, prev_close_u, u, t_open, tracking_error_daily, p) ==
  DayOutcome(prev_close_t, prev_close_u, u.close, t_open,
             ApplyCosts(LeveragedMove(t_open, RSub(RDiv(u.close, u.open), ROne),
                                      tracking_error_daily, p), p))

\* a day that carries the underlying close of a degenerate day on
AdvancingDay(prev_close_t, prev_close_u, u, tracking_error_daily, p) ==
  IF Degenerate(prev_close_u, u.open, u.close)
  THEN [exc |-> "none", bar |-> FlatBar(prev_close_t),
        prev_close_t |-> prev_close_t, prev_close_u |-> u.close]
  ELSE DayFromOpen(prev_close_t, prev_close_u, u,
                   LeveragedMove(prev_close_t, RSub(RDiv(u.open, prev_close_u), ROne),
                                 tracking_error_daily, p),
                   tracking_error_daily, p)

\* One iteration of the loop over dates[1:]: the bar of the day and the
\* carried prev_close_t and prev_close_u, or the exception of a division
SimulateDay(prev_close_t, prev_close_u, u, tracking_error_daily, p) ==
  IF Degenerate(prev_close_u, u.open, u.close)
  THEN [exc |-> "none", bar |-> FlatBar(prev_close_t),
        prev_close_t |-> prev_close_t, prev_close_u |-> prev_close_u]
  ELSE DayFromOpen(prev_close_t, prev_close_u, u,
                   LeveragedMove(prev_close_t, RSub(RDiv(u.open, prev_close_u), ROne),
                                 tracking_error_daily, p),
                   tracking_error_daily, p)

\* out[date] = bar, ahead of the bars of the later dates
SimulateEmit(date, bar, rest) ==
  IF rest.exc # "none" THEN rest
  ELSE Returned(SeriesUpdate([d \in {date} |-> bar], rest.val))

RECURSIVE SimulateLoop(_, _, _, _, _, _, _)
SimulateNext(underlying_data, dates, i, day, te, p) ==
  IF day.exc # "none" THEN Raised(day.exc)
  ELSE SimulateEmit(dates[i], day.bar,
                    SimulateLoop(underlying_data, dates, i + 1,
                                 day.prev_close_t, day.prev_close_u, te, p))

\* the loop over dates[1:] from index i on
SimulateLoop(underlying_data, dates, i, prev_close_t, prev_close_u, te, p) ==
  IF i > Len(dates) THEN Returned(EmptySeries)
  ELSE SimulateNext(underlying_data, dates, i,
                    SimulateDay(prev_close_t, prev_close_u, underlying_data[dates[i]],
                                te, p),
                    te, p)

\* the first bar and the loop, from the start price and the tracking error
SimulateFrom(underlying_data, dates, start_close, te, p) ==
  IF te.exc # "none" THEN te
  ELSE SimulateEmit(dates[1], FlatBar(start_close),
                    SimulateLoop(underlying_data, dates, 2, start_close,
                                 underlying_data[dates[1]].close, te.val, p))

SimulateDates(underlying_data, dates, p) ==
  SimulateFrom(underlying_data, dates,
               StartClose(underlying_data[dates[1]].close, p),
               CalibrateTrackingError(underlying_data, dates, p), p)

\* the whole call
simulate_leveraged_etf_from_underlying(underlying_data, p) ==
  IF DOMAIN underlying_data = {} THEN Returned(EmptySeries)
  ELSE SimulateDates(underlying_data, SortedDates(underlying_data), p)

----------------------------------------------------------------------------
(* adjust_real_soxl_to_simulated: the continuity splicer                   *)

\* data.get(key, 0)
GetOrZero(data, key) == IF key \in DOMAIN data THEN data[key] ELSE RZero

\* scaling_factor = last_sim_close / first_real_open, for first_real_open # 0
ScalingFactor(last_sim_close, first_real_open) == RDiv(last_sim_close, first_real_open)

\* an adjusted bar whose close is left at its real level
AdjustBarOpenOnly(data, scaling_factor) ==
  [open           |-> RMul(data.open, scaling_factor),
   close          |-> data.close,
   overnight_rate |-> GetOrZero(data, "overnight_rate"),
   day_rate       |-> GetOrZero(data, "day_rate"),
   rate           |-> data.rate]

\* the adjusted bar of one real bar
AdjustBar(data, scaling_factor) ==
  [open           |-> RMul(data.open, scaling_factor),
   close          |-> RMul(data.close, scaling_factor),
   overnight_rate |-> GetOrZero(data, "overnight_rate"),
   day_rate       |-> GetOrZero(data, "day_rate"),
   rate           |-> data.rate]

\* the body after the empty-input return: the scaling factor divides by
\* first_real_open (line 686), the loop reads data["rate"], and the
\* transition gap printed at the end divides by last_sim_close (line 703)
AdjustFrom(raw_real_soxl_data, last_sim_close, first_real_open) ==
  IF first_real_open.s = 0 THEN Raised("ZeroDivisionError")
  ELSE IF \E date \in DOMAIN raw_real_soxl_data :
             "rate" \notin DOMAIN raw_real_soxl_data[date]
  THEN Raised("KeyError")
  ELSE IF last_sim_close.s = 0 THEN Raised("ZeroDivisionError")
  ELSE Returned([date \in DOMAIN raw_real_soxl_data |->
                   AdjustBar(raw_real_soxl_data[date],
                             ScalingFactor(last_sim_close, first_real_open))])

adjust_real_soxl_to_simulated(simulated_soxl, raw_real_soxl_data) ==
  IF DOMAIN simulated_soxl = {} \/ DOMAIN raw_real_soxl_data = {}
  THEN Returned(raw_real_soxl_data)
  ELSE AdjustFrom(raw_real_soxl_data,
                  simulated_soxl[MaxOf(DOMAIN simulated_soxl)].close,
                  raw_real_soxl_data[MinOf(DOMAIN raw_real_soxl_data)].open)

----------------------------------------------------------------------------
(* download_complete_data, steps 4 and 5: merge the simulated and the      *)
(* adjusted real bars and recalculate all rates                            *)

\* a merge in which the simulated bar of a date wins
SimulatedWins(simulated_soxl, adjusted_real_soxl) ==
  SeriesUpdate(adjusted_real_soxl, simulated_soxl)

\* all_soxl_data.update(simulated_soxl); all_soxl_data.update(adjusted_real_soxl)
MergeSegments(simulated_soxl, adjusted_real_soxl) ==
  SeriesUpdate(simulated_soxl, adjusted_real_soxl)

\* the merged bars with the rates they came with
SoxlCarriedRates(all_soxl_data, sorted_dates, i) == Returned(all_soxl_data)

RECURSIVE SoxlRecalcLoop(_, _, _)
SoxlRecalcLoop(all_soxl_data, sorted_dates, i) ==
  IF i > Len(sorted_dates) THEN Returned(all_soxl_data)
  ELSE LET date        == sorted_dates[i]
           close_value == all_soxl_data[date].close
           open_value  == all_soxl_data[date].open
           prev_close  == all_soxl_data[sorted_dates[i - 1]].close
       IN  IF (i > 1 /\ prev_close.s = 0) \/ open_value.s = 0
           THEN Raised("ZeroDivisionError")
           ELSE LET overnight_rate == IF i = 1 THEN RZero ELSE PctDiff(open_value, prev_close)
                    combined_rate  == IF i = 1 THEN RZero ELSE PctDiff(close_value, prev_close)
                    day_rate       == PctDiff(close_value, open_value)
                    bar == BarUpdate(all_soxl_data[date],
                                     MergeRates(overnight_rate, day_rate, combined_rate))
                IN  SoxlRecalcLoop([all_soxl_data EXCEPT ![date] = bar], sorted_dates, i + 1)

\* soxl_data_out of the branch that has real data
MergeAndRecalculate(simulated_soxl, adjusted_real_soxl) ==
  LET all_soxl_data == MergeSegments(simulated_soxl, adjusted_real_soxl)
  IN  SoxlRecalcLoop(all_soxl_data, SortedDates(all_soxl_data), 1)

----------------------------------------------------------------------------
(* download_complete_data, the SOXL part: the steps with real data         *)

\* "2010-03-11", the SOXL launch date, as a date of the model
LaunchDate == 11

SOXL_CALIBRATION_METHOD == "trimmed"

\* the arguments download_complete_data passes for SOXL
SOXL_ANNUAL_EXPENSE_RATIO == Frac(95, 10000)
SOXL_BORROW_COST == Frac(4, 1000)
SOXL_MAX_DAILY_TRACKING_ERROR == Frac(2, 10000)
SOXL_TRIM_FRACTION == Frac(5, 100)
SOXL_EXTRA_DAILY_DRIFT == RZero

SoxlParams(calibration_method, calibrate_with_real) ==
  [DefaultParams EXCEPT !.annual_expense_ratio = SOXL_ANNUAL_EXPENSE_RATIO,
                        !.additional_annual_borrow_cost = SOXL_BORROW_COST,
                        !.calibration_method = calibration_method,
                        !.max_abs_tracking_error = SOXL_MAX_DAILY_TRACKING_ERROR,
                        !.trim_fraction = SOXL_TRIM_FRACTION,
                        !.extra_daily_drift = SOXL_EXTRA_DAILY_DRIFT,
                        !.calibrate_with_real = calibrate_with_real]

\* {date: data for date, data in soxx_data.items() if date < "2010-03-11"}
EarlySoxx(soxx_data) ==
  [date \in {d \in DOMAIN soxx_data : d < LaunchDate} |-> soxx_data[date]]

\* the values of the branch with real data, or the exception it raised
Processed(raw, sim, adj, merged) ==
  [exc |-> "none", raw_real_soxl_data |-> raw, simulated_soxl |-> sim,
   adjusted_real_soxl |-> adj, soxl_data_out |-> merged]
ProcessRaised(e) == [exc |-> e]

\* lines 850-887
ProcessMerged(raw, sim, adj, merged) ==
  IF merged.exc # "none" THEN ProcessRaised(merged.exc)
  ELSE Processed(raw, sim, adj, merged.val)

\* line 848
ProcessAdjusted(raw, sim, adj) ==
  IF adj.exc # "none" THEN ProcessRaised(adj.exc)
  ELSE ProcessMerged(raw, sim, adj.val, MergeAndRecalculate(sim, adj.val))

\* lines 833-845: the second pass of the simulation
ProcessSimulated(raw, sim) ==
  IF sim.exc # "none" THEN ProcessRaised(sim.exc)
  ELSE ProcessAdjusted(raw, sim.val, adjust_real_soxl_to_simulated(sim.val, raw))

ProcessRaw(raw, early_soxx, simulated_soxl) ==
  IF raw.exc # "none" THEN ProcessRaised(raw.exc)
  ELSE ProcessSimulated(raw.val,
         IF DOMAIN early_soxx # {}
         THEN simulate_leveraged_etf_from_underlying(
                early_soxx, SoxlParams(SOXL_CALIBRATION_METHOD, raw.val))
         ELSE Returned(simulated_soxl))

\* lines 829-887
ProcessReal(soxx_data, simulated_soxl, soxl_real_data) ==
  ProcessRaw(merge_and_calculate(soxl_real_data), EarlySoxx(soxx_data), simulated_soxl)

----------------------------------------------------------------------------
(* save_data: the guarded write of <ticker>.json                           *)
(* A file is a record: state "absent", "corrupt" (it exists but json.load  *)
(* raises on it) or "json", with the loaded series as its content.         *)

AbsentFile == [state |-> "absent", content |-> EmptySeries]
CorruptFile == [state |-> "corrupt", content |-> EmptySeries]
JsonFile(content) == [state |-> "json", content |-> content]

\* lines 580-592: existing_data stays {} when the file is absent or unreadable
ExistingData(file) == IF file.state = "json" THEN file.content ELSE EmptySeries

Count(series) == Cardinality(DOMAIN series)

\* new_count < existing_count * 0.8
MuchSmaller(new_count, existing_count) == new_count * 5 < existing_count * 4

\* the entry has numeric open > 0 and close > 0 (a missing key reads as None)
ValidEntry(entry) ==
  /\ "open" \in DOMAIN entry /\ "close" \in DOMAIN entry
  /\ entry.open.s > 0 /\ entry.close.s > 0

ValidEntries(data) == Cardinality({date \in DOMAIN data : ValidEntry(data[date])})

\* valid_entries / new_count * 100 < 50
PoorQuality(data) == ValidEntries(data) * 100 < 50 * Count(data)

\* response.lower(), on the answers drawn
Lower(response) ==
  IF response = "Y" THEN "y" ELSE IF response = "N" THEN "n" ELSE response

\* no existing file is taken as usable
NeverUsable(file) == FALSE

\* os.path.exists(path) and json.load succeeds
UsableFile(file) == file.state = "json"

\* the outcome of a call and the file it leaves
Kept(file) == [exc |-> "none", val |-> "output_path", file |-> file]
Failed(e, file) == [exc |-> e, val |-> <<>>, file |-> file]

\* lines 645-661: open(output_path, 'w') and json.dump; io is what the file
\* system does: the write succeeds, open raises and leaves the file as it
\* was, or the dump raises after open has truncated the file
WriteFile(file, data, io) ==
  IF io = "ok" THEN Kept(JsonFile(data))
  ELSE IF io = "open raises" THEN Kept(file)
  ELSE Kept(CorruptFile)

\* the write without the quality check
WriteUnchecked(file, data, existing_count, io) == WriteFile(file, data, io)

\* lines 623-643: the quality check, then the write
CheckQuality(file, data, existing_count, io) ==
  IF PoorQuality(data) /\ existing_count > 0 THEN Kept(file)
  ELSE WriteFile(file, data, io)

\* lines 610-621: the size check; response is what input() returns, None
\* when standard input is closed and input() raises EOFError
CheckSize(file, data, existing_count, response, io) ==
  IF existing_count > 0 /\ MuchSmaller(Count(data), existing_count)
  THEN IF response = None THEN Failed("EOFError", file)
       ELSE IF Lower(response[1]) # "y" THEN Kept(file)
       ELSE CheckQuality(file, data, existing_count, io)
  ELSE CheckQuality(file, data, existing_count, io)

SaveChecked(file, data, existing_count, response, io) ==
  IF DOMAIN data = {}
  THEN IF existing_count > 0 THEN Kept(file) ELSE WriteFile(file, data, io)
  ELSE CheckSize(file, data, existing_count, response, io)

save_data(file, data, response, io) ==
  SaveChecked(file, data, Count(ExistingData(file)), response, io)

----------------------------------------------------------------------------
(* The fetchers: provider rows to bars                                     *)
(* A row is a record [datetime, open, close]; a price is Some(value), or   *)
(* None when the provider's row has no usable value (a NaN cell of the     *)
(* Yahoo frame, a missing or unparsable field of the Twelve Data JSON).    *)

Row(datetime, open, close) == [datetime |-> datetime, open |-> open, close |-> close]

\* the rate fields a fetched bar starts with ("Will calculate later")
FetchedBar(open, close) ==
  [open |-> open, close |-> close, overnight_rate |-> RZero, day_rate |-> RZero,
   rate |-> RZero]

\* the last of the rows i with rows[i].datetime = date among those of I:
\* the assignment to stock_data[date_str] that is made last
LastRow(rows, I, date) ==
  rows[CHOOSE i \in I : /\ rows[i].datetime = date
                        /\ \A j \in I : rows[j].datetime = date => j <= i]

\* the keys of the dict built by a loop that assigns a bar for the rows of I
DatesOf(rows, I) == {rows[i].datetime : i \in I}

\* download_yahoo_finance_data, lines 117 and 123-129
YahooKeeps(row) ==
  ~(row.open = None \/ row.close = None \/ row.open[1].s <= 0 \/ row.close[1].s <= 0)
YahooBar(row) == FetchedBar(Round6(row.open[1]), Round6(row.close[1]))
YahooRows(rows) == {i \in 1..Len(rows) : YahooKeeps(rows[i])}
YahooConvert(rows) ==
  [date \in DatesOf(rows, YahooRows(rows)) |->
     YahooBar(LastRow(rows, YahooRows(rows), date))]

\* download_yahoo_finance_data, the attempts. An answer of
\* stock.history is a frame of rows, or an exception with its message.
max_retries == 3

YahooFrame(rows) == [exception |-> None, df |-> rows]
YahooError(error_msg) == [exception |-> Some(error_msg), df |-> <<>>]

\* the indicators of a rate limit or a server error
RateLimitIndicators ==
  {"too many requests", "rate limit", "http 429", "http 503", "http 502",
   "http 504", "timeout", "connection", "server error"}

\* any(indicator in error_msg for indicator in [...]); a message is one of
\* the indicators or a text that holds none of them
RateLimited(error_msg) == error_msg \in RateLimitIndicators

\* an attempt that is always followed by another
AlwaysRetries(att) == TRUE

\* attempt < max_retries - 1
AttemptsRemain(att) == att < max_retries - 1

YahooContinue == [continue |-> TRUE, val |-> EmptySeries]
YahooReturn(stock_data) == [continue |-> FALSE, val |-> stock_data]

\* continue while attempts remain, else return {}
RetryOrEmpty(att) == IF AttemptsRemain(att) THEN YahooContinue ELSE YahooReturn(EmptySeries)

\* the except clause, lines 136-160
YahooExcept(error_msg, att) ==
  IF RateLimited(error_msg) THEN RetryOrEmpty(att) ELSE YahooReturn(EmptySeries)

\* the try block on a frame, lines 62-134: valid_rows counts the rows that
\* the conversion keeps
YahooTry(rows, valid_rows, total_rows, att) ==
  IF total_rows = 0 THEN RetryOrEmpty(att)
  ELSE IF valid_rows = 0 THEN RetryOrEmpty(att)
  ELSE IF 2 * valid_rows < total_rows /\ AttemptsRemain(att) THEN YahooContinue
  ELSE YahooReturn(YahooConvert(rows))

\* the body of the loop for one attempt
YahooAttemptBody(answer, att) ==
  IF answer.exception # None THEN YahooExcept(answer.exception[1], att)
  ELSE YahooTry(answer.df, Cardinality(YahooRows(answer.df)), Len(answer.df), att)

\* download_twelvedata_data, lines 254-277: a row that raises ValueError or
\* KeyError, or has a price <= 0, is skipped
TwelveKeeps(row) ==
  /\ row.open # None /\ row.close # None
  /\ ~(row.open[1].s <= 0 \/ row.close[1].s <= 0)
TwelveBar(row) == FetchedBar(row.open[1], row.close[1])
TwelveRows(values) == {i \in 1..Len(values) : TwelveKeeps(values[i])}
TwelveConvert(values) ==
  [date \in DatesOf(values, TwelveRows(values)) |->
     TwelveBar(LastRow(values, TwelveRows(values), date))]

\* daily_update.get_latest_data_twelvedata, lines 230-244: the rows on or
\* after start_date; the bar also carries sma200 = None
LatestBar(row) ==
  [open |-> row.open[1], close |-> row.close[1], overnight_rate |-> RZero,
   day_rate |-> RZero, rate |-> RZero, sma200 |-> None]
RowsOfAnyDate(values, start_date) == 1..Len(values)
LatestRows(values, start_date) ==
  {i \in 1..Len(values) : values[i].datetime >= start_date}

LatestConvert(values, start_date) ==
  [date \in DatesOf(values, LatestRows(values, start_date)) |->
     LatestBar(LastRow(values, LatestRows(values, start_date), date))]

\* float(bar["open"]) or float(bar["close"]) raises on a row of I
LatestRaises(values, I) ==
  \E i \in I : values[i].open = None \/ values[i].close = None

\* lines 183-256; provider is the response of the time_series request
get_latest_data_twelvedata(provider, start_date) ==
  IF provider.status # "ok" THEN Raised("Exception")
  ELSE IF ~provider.has_values THEN Returned(EmptySeries)
  ELSE IF LatestRaises(provider.values,
                       {i \in 1..Len(provider.values) :
                          provider.values[i].datetime >= start_date})
  THEN Raised("Exception")
  ELSE Returned(LatestConvert(provider.values, start_date))

----------------------------------------------------------------------------
(* daily_update.update_ticker                                              *)
(* Dates are day numbers; day 0 is a Monday.  A clock is a record: et_date *)
(* and et_minute are the date and the minute of the day in US/Eastern,     *)
(* ahead is the number of minutes the machine's zone is ahead of           *)
(* US/Eastern, pytz tells whether pytz can be imported.                    *)

MinutesPerDay == 24 * 60
MarketOpenMinute == 9 * 60 + 30
MarketCloseMinute == 16 * 60

\* datetime.weekday(): Monday is 0
Weekday(date) == date % 7

\* datetime.now(): the date and the hour of the machine's zone
LocalMinutes(clk) == clk.et_minute + clk.ahead
LocalDate(clk) ==
  IF LocalMinutes(clk) < 0 THEN clk.et_date - 1
  ELSE clk.et_date + (LocalMinutes(clk) \div MinutesPerDay)
LocalHour(clk) == ((LocalMinutes(clk) + MinutesPerDay) % MinutesPerDay) \div 60

\* lines 60-94
is_market_closed(clk) ==
  IF clk.pytz
  THEN IF Weekday(clk.et_date) >= 5 THEN TRUE
       ELSE clk.et_minute < MarketOpenMinute \/ clk.et_minute >= MarketCloseMinute
  ELSE IF Weekday(LocalDate(clk)) >= 5 THEN TRUE
       ELSE LocalHour(clk) < 9 \/ LocalHour(clk) >= 16

\* lines 153-180: {} when the file is absent, unreadable or empty
load_existing_data(file) == IF file.state = "json" THEN file.content ELSE EmptySeries

\* lines 352-371: w is what the file system does on the write
save_updated_data(file, updated_data, w) ==
  IF w = "ok" THEN [ok |-> TRUE, file |-> JsonFile(updated_data)]
  ELSE IF w = "open raises" THEN [ok |-> FALSE, file |-> file]
  ELSE [ok |-> FALSE, file |-> CorruptFile]

\* what a run returns or raises, and the file it leaves
UpdateOut(ret, file) == [ret |-> ret, file |-> file]
NothingAdded(success) ==
  Returned([success |-> success, new_data_added |-> FALSE, dates |-> <<>>])
Added(success, dates) ==
  Returned([success |-> success, new_data_added |-> TRUE, dates |-> dates,
            count |-> Len(dates)])

\* no date is held back
NeverSkipped(date, today, market_closed) == FALSE

\* lines 427-429: today's bar is held back while the market is open
SkipsToday(date, today, market_closed) == date = today /\ ~market_closed

\* lines 425-438: the dates of new_data that are added
FilteredDates(new_data, existing_data, today, market_closed) ==
  {date \in DOMAIN new_data :
     /\ ~SkipsToday(date, today, market_closed)
     /\ \/ date \notin DOMAIN existing_data
        \/ date = today /\ market_closed}

FilterNew(new_data, existing_data, today, market_closed) ==
  [date \in FilteredDates(new_data, existing_data, today, market_closed) |->
     new_data[date]]

\* calculate_metrics, lines 314-324: what the split check gets for prev_date;
\* an exception of the request is caught
ApiData(fetched) == IF fetched.exc = "none" THEN fetched.val ELSE EmptySeries

\* lines 455-462
UpdateSaved(file, metrics, dates, w) ==
  IF metrics.exc # "none" THEN UpdateOut(metrics, file)
  ELSE UpdateOut(Added(save_updated_data(file, metrics.val, w).ok, dates),
                 save_updated_data(file, metrics.val, w).file)

\* lines 440-452
UpdateFiltered(file, existing_data, last_date, filtered_new_data, api_answer, w) ==
  IF filtered_new_data = EmptySeries THEN UpdateOut(NothingAdded(TRUE), file)
  ELSE UpdateSaved(file,
                   calculate_metrics(existing_data, filtered_new_data,
                                     ApiData(get_latest_data_twelvedata(api_answer,
                                                                        last_date))),
                   SortedDates(filtered_new_data), w)

\* lines 416-438
UpdateFetched(file, existing_data, last_date, closed, today, new_data, api_answer, w) ==
  IF new_data.exc # "none" THEN UpdateOut(new_data, file)
  ELSE IF new_data.val = EmptySeries THEN UpdateOut(NothingAdded(TRUE), file)
  ELSE UpdateFiltered(file, existing_data, last_date,
                      FilterNew(new_data.val, existing_data, today, closed),
                      api_answer, w)

\* lines 387-416; start_date is last_date + 1
UpdateLoaded(file, existing_data, last_date, closed, today, answer, api_answer, w) ==
  IF last_date > today THEN UpdateOut(NothingAdded(TRUE), file)
  ELSE IF last_date + 1 > today THEN UpdateOut(NothingAdded(TRUE), file)
  ELSE IF last_date + 1 = today /\ ~closed
  THEN UpdateOut(NothingAdded(TRUE), file)
  ELSE UpdateFetched(file, existing_data, last_date, closed, today,
                     get_latest_data_twelvedata(answer, last_date + 1),
                     api_answer, w)

\* lines 374-462: answer is the provider's response to the request of line
\* 416, api_answer its response to the request of the split check
update_ticker(file, clk, answer, api_answer, w) ==
  IF load_existing_data(file) = EmptySeries THEN UpdateOut(NothingAdded(FALSE), file)
  ELSE UpdateLoaded(file, load_existing_data(file),
                    MaxOf(DOMAIN load_existing_data(file)),
                    is_market_closed(clk), LocalDate(clk), answer, api_answer, w)

----------------------------------------------------------------------------
(* State                                                                   *)

VARIABLES
  pc,                   \* control point of the run
  underlying_data,      \* simulate: the underlying series passed in
  params,               \* simulate: the keyword arguments
  sim_i,                \* simulate: index into dates of the day to process next
  prev_close_t,         \* simulate: carried leveraged close
  prev_close_u,         \* simulate: carried underlying close
  tracking_error_daily, \* simulate: the tracking error the loop uses
  out,                  \* simulate: the bars emitted so far
  data_dict,            \* rate decomposition: the series passed in
  fn,                   \* rate decomposition: the function called
  result,               \* the outcome of the call (Returned or Raised)
  again,                \* the outcome of calling fn on that result
  soxx_data,            \* download_complete_data: the underlying series
  soxl_real_data,       \* download_complete_data: the provider's real bars
  simulated_soxl,       \* download_complete_data / splicer argument
  raw_real_soxl_data,   \* download_complete_data / splicer argument
  adjusted_real_soxl,   \* download_complete_data: the spliced real bars
  soxl_data_out,        \* download_complete_data: the merged series
  stored,               \* the ticker's JSON file on disk
  data,                 \* save_data: the series to save
  response,             \* save_data: what input() returns
  io,                   \* what the file system does on a write
  provider,             \* the response of the data provider
  start_date,           \* get_latest_data_twelvedata: first date wanted
  clock,                \* update_ticker: the time of the run
  attempt               \* download_yahoo_finance_data: the index of the attempt

simVars == <<underlying_data, params, sim_i, prev_close_t, prev_close_u,
             tracking_error_daily, out>>
rateVars == <<data_dict, fn, again>>
pipeVars == <<soxx_data, soxl_real_data, simulated_soxl, raw_real_soxl_data,
              adjusted_real_soxl, soxl_data_out>>
fileVars == <<stored, data, response, io>>
updVars == <<provider, start_date, clock, attempt>>
vars == <<pc, simVars, rateVars, result, pipeVars, fileVars, updVars>>

\* the value of a variable a specification does not use
Unused == <<>>

SimUnused ==
  /\ underlying_data = Unused /\ params = Unused /\ sim_i = 0
  /\ prev_close_t = Unused /\ prev_close_u = Unused
  /\ tracking_error_daily = Unused /\ out = Unused
RateUnused == data_dict = Unused /\ fn = Unused /\ again = Unused
PipeUnused ==
  /\ soxx_data = Unused /\ soxl_real_data = Unused /\ simulated_soxl = Unused
  /\ raw_real_soxl_data = Unused /\ adjusted_real_soxl = Unused
  /\ soxl_data_out = Unused
FileUnused == stored = Unused /\ data = Unused /\ response = Unused /\ io = Unused
UpdUnused == provider = Unused /\ start_date = 0 /\ clock = Unused /\ attempt = 0

----------------------------------------------------------------------------
(* Inputs                                                                  *)

\* all sequences over S of length at most n
SeqsUpTo(S, n) == UNION {[1..k -> S] : k \in 0..n}

\* a provider bar and a bar that carries rates
Bar(o, c) == [open |-> o, close |-> c]
RatedBar(o, c, r) ==
  [open |-> o, close |-> c, overnight_rate |-> r, day_rate |-> r, rate |-> r]

\* the series with the bars of seq on the dates first, first + 1, ...
SeriesFrom(seq, first) == [d \in first..(first + Len(seq) - 1) |-> seq[d - first + 1]]

\* <<open, close>> pairs of integers as bars
IntBars(seq) == [i \in 1..Len(seq) |-> Bar(RInt(seq[i][1]), RInt(seq[i][2]))]

----------------------------------------------------------------------------
(* SpecSim: one call of simulate_leveraged_etf_from_underlying, a day of   *)
(* the loop at a time                                                      *)

\* longest underlying series drawn (the fixture apart)
MaxSimDays == 3

\* the days drawn: a rise, a fall of a third (leveraged to zero), and days
\* with a zero or negative price
SimDayBars == {<<4, 5>>, <<6, 4>>, <<0, 5>>, <<5, -1>>}

\* the regression fixture of test_tqqq_simulation
Fixture ==
  SeriesFrom(<<Bar(RInt(100), RInt(102)), Bar(Frac(203, 2), RInt(99)),
               Bar(Frac(197, 2), RInt(103)), Bar(RInt(104), RInt(105)),
               Bar(Frac(211, 2), RInt(101))>>, 1)

\* zero costs and starting_price = 100
FixtureParams ==
  [DefaultParams EXCEPT !.annual_expense_ratio = RZero,
                        !.additional_annual_borrow_cost = RZero,
                        !.starting_price = Some(RInt(100))]

SimUnderlyingInputs ==
  {SeriesFrom(IntBars(seq), 1) : seq \in SeqsUpTo(SimDayBars, MaxSimDays)}

SimParamInputs ==
  {FixtureParams, SoxlParams("none", EmptySeries),
   [DefaultParams EXCEPT !.tracking_error_daily = Some(Frac(1, 10000)),
                         !.extra_daily_drift = Frac(-1, 20000)]}

\* the calls drawn: every series with every argument set, and the fixture
SimInputs == (SimUnderlyingInputs \X SimParamInputs) \cup {<<Fixture, FixtureParams>>}

SimDates == SortedDates(underlying_data)

InitSim ==
  /\ pc = "call"
  /\ \E call \in SimInputs : underlying_data = call[1] /\ params = call[2]
  /\ sim_i = 0 /\ prev_close_t = Unused /\ prev_close_u = Unused
  /\ tracking_error_daily = Unused /\ out = Unused
  /\ result = Unused
  /\ RateUnused /\ PipeUnused /\ FileUnused /\ UpdUnused

\* the state after the calibration and the bar of the first date
SimStart(first, first_close_under, start_close, te) ==
  IF te.exc # "none"
  THEN /\ pc' = "raised"
       /\ result' = te
       /\ UNCHANGED <<sim_i, prev_close_t, prev_close_u, tracking_error_daily, out>>
  ELSE /\ pc' = "loop"
       /\ tracking_error_daily' = te.val
       /\ out' = [d \in {first} |-> FlatBar(start_close)]
       /\ prev_close_t' = start_close
       /\ prev_close_u' = first_close_under
       /\ sim_i' = 2
       /\ UNCHANGED result

\* lines 403-476: the empty-input return, the start price, the calibration
\* and the bar of the first date
SimBegin ==
  /\ pc = "call"
  /\ IF DOMAIN underlying_data = {}
     THEN /\ pc' = "returned"
          /\ result' = Returned(EmptySeries)
          /\ UNCHANGED <<sim_i, prev_close_t, prev_close_u, tracking_error_daily, out>>
     ELSE SimStart(SimDates[1], underlying_data[SimDates[1]].close,
                   StartClose(underlying_data[SimDates[1]].close, params),
                   CalibrateTrackingError(underlying_data, SimDates, params))
  /\ UNCHANGED <<underlying_data, params, rateVars, pipeVars, fileVars, updVars>>

\* lines 478-511: one iteration of the loop over dates[1:]
SimDay ==
  /\ pc = "loop"
  /\ sim_i <= Len(SimDates)
  /\ LET d   == SimDates[sim_i]
         day == SimulateDay(prev_close_t, prev_close_u, underlying_data[d],
                            tracking_error_daily, params)
     IN  IF day.exc # "none"
         THEN /\ pc' = "raised"
              /\ result' = Raised(day.exc)
              /\ UNCHANGED <<sim_i, prev_close_t, prev_close_u, out>>
         ELSE /\ out' = SeriesUpdate(out, [x \in {d} |-> day.bar])
              /\ prev_close_t' = day.prev_close_t
              /\ prev_close_u' = day.prev_close_u
              /\ sim_i' = sim_i + 1
              /\ UNCHANGED <<pc, result>>
  /\ UNCHANGED <<underlying_data, params, tracking_error_daily, rateVars, pipeVars, fileVars, updVars>>

\* line 513: return out
SimReturn ==
  /\ pc = "loop"
  /\ sim_i > Len(SimDates)
  /\ pc' = "returned"
  /\ result' = Returned(out)
  /\ UNCHANGED <<simVars, rateVars, pipeVars, fileVars, updVars>>

NextSim == SimBegin \/ SimDay \/ SimReturn

SpecSim == InitSim /\ [][NextSim]_vars

\* the leveraged open of the day the loop is at
LeveragedOpenNow ==
  LeveragedMove(prev_close_t,
                RSub(RDiv(underlying_data[SimDates[sim_i]].open, prev_close_u), ROne),
                tracking_error_daily, params)

C20_SingleDateReturned ==
  /\ pc = "returned"
  /\ Cardinality(DOMAIN underlying_data) = 1
  /\ DOMAIN result.val = DOMAIN underlying_data

\* the loop is at a day on which the previous underlying close, the
\* underlying open or the underlying close is not positive
DegenerateNow ==
  /\ pc = "loop" /\ sim_i <= Len(SimDates)
  /\ \/ prev_close_u.s <= 0
     \/ underlying_data[SimDates[sim_i]].open.s <= 0
     \/ underlying_data[SimDates[sim_i]].close.s <= 0

\* the bar the step has stored for the day the loop was at
BarStored == out'[SimDates[sim_i]]

\* C9: a day on which the previous underlying close, the underlying open or
\* the underlying close is <= 0 does not raise; its bar has open and close
\* equal to the previous leveraged close and all three rates 0, and the
\* leveraged close carried to the next day is unchanged.
C9_DegenerateDaySafe ==
  [][DegenerateNow =>
       /\ pc' = "loop" /\ sim_i' = sim_i + 1
       /\ BarStored.open = out[SimDates[sim_i - 1]].close
       /\ BarStored.close = out[SimDates[sim_i - 1]].close
       /\ BarStored.close = Round6(prev_close_t)
       /\ BarStored.overnight_rate = RZero
       /\ BarStored.day_rate = RZero
       /\ BarStored.rate = RZero
       /\ prev_close_t' = prev_close_t]_vars

\* the call has returned a series whose last day had a negative close and
\* came after a regular day
C9_Witness ==
  /\ pc = "returned" /\ Len(SimDates) = MaxSimDays
  /\ underlying_data[SimDates[MaxSimDays]].close.s < 0
  /\ result.val[SimDates[MaxSimDays - 1]].rate # RZero
  /\ result.val[SimDates[MaxSimDays]].rate = RZero

\* the call on the fixture has returned
FixtureReturned ==
  pc = "returned" /\ underlying_data = Fixture /\ params = FixtureParams

\* the underlying's rates of the day at position i > 1, in per cent
UnderOvernight(i) ==
  PctOf(underlying_data[SimDates[i]].open, underlying_data[SimDates[i - 1]].close)
UnderDay(i) ==
  PctOf(underlying_data[SimDates[i]].close, underlying_data[SimDates[i]].open)
UnderCombined(i) ==
  PctOf(underlying_data[SimDates[i]].close, underlying_data[SimDates[i - 1]].close)

Triple(rate) == RMul(RInt(3), rate)

\* the first bar is flat at 100 with all rates 0
FlatAtHundred(bar) ==
  /\ REq(bar.open, RHundred) /\ REq(bar.close, RHundred)
  /\ bar.overnight_rate = RZero /\ bar.day_rate = RZero /\ bar.rate = RZero

\* the two tripled phases compounded: ((1 + 3a/100) * (1 + 3b/100) - 1) * 100
TripledCompound(a, b) ==
  RMul(RSub(RMul(GrowthOf(Triple(a)), GrowthOf(Triple(b))), ROne), RHundred)

RegularDayStored ==
  /\ pc = "loop" /\ sim_i <= Len(SimDates) /\ ~DegenerateNow
  /\ pc' = "loop"

\* the underlying bar of the day the loop is at
UnderNow == underlying_data[SimDates[sim_i]]

\* prev_close_t * (1 + leverage * r_overnight + tracking_error_daily / 2)
\* with r_overnight = open_u / prev_close_u - 1
TransitionOpen ==
  RMul(prev_close_t,
       RAdd(RAdd(ROne, RMul(params.leverage,
                            RSub(RDiv(UnderNow.open, prev_close_u), ROne))),
            RDiv(tracking_error_daily, RInt(2))))

\* open * (1 + leverage * r_day + tracking_error_daily / 2)
\* with r_day = close_u / open_u - 1
TransitionRawClose ==
  RMul(TransitionOpen,
       RAdd(RAdd(ROne, RMul(params.leverage,
                            RSub(RDiv(UnderNow.close, UnderNow.open), ROne))),
            RDiv(tracking_error_daily, RInt(2))))

\* the raw close * total_fee_factor * (1 + extra_daily_drift)
TransitionClose ==
  RMul(RMul(TransitionRawClose, TotalFeeFactor(params)),
       RAdd(ROne, params.extra_daily_drift))

\* C21: on every non-degenerate day after the first the simulation computes
\* open = prev_close_t * (1 + leverage * r_overnight + tracking_error_daily/2)
\* and close = open * (1 + leverage * r_day + tracking_error_daily/2)
\* * total_fee_factor * (1 + extra_daily_drift), the cost factor entering
\* the close only; the bar it stores holds the two prices rounded to 6
\* decimals, and the close as computed and close_u are the next day's
\* prev_close_t and prev_close_u.
C21_PerDayTransition ==
  [][RegularDayStored =>
       /\ BarStored.open = Round6(TransitionOpen)
       /\ BarStored.close = Round6(TransitionClose)
       /\ REq(prev_close_t', TransitionClose)
       /\ prev_close_u' = UnderNow.close]_vars

\* two regular days in a row have been stored under costs, a tracking error
\* and a drift that are not zero, the second from a close that the file
\* holds rounded
C21_Witness ==
  /\ pc = "loop" /\ sim_i = 4
  /\ out[SimDates[2]].rate # RZero /\ out[SimDates[3]].rate # RZero
  /\ tracking_error_daily.s # 0 /\ params.extra_daily_drift.s # 0
  /\ ~REq(TotalFeeFactor(params), ROne)
  /\ ~REq(prev_close_t, out[SimDates[3]].close)

\* the call is on a series that is not empty and the step stores the bar of
\* its earliest date
FirstDayStored ==
  pc = "call" /\ DOMAIN underlying_data # {} /\ pc' = "loop"

\* starting_price when it is given, else the first underlying close times
\* leverage
FirstDayPrice ==
  IF params.starting_price # None THEN params.starting_price[1]
  ELSE RMul(underlying_data[SimDates[1]].close, params.leverage)

\* C23: the bar of the earliest underlying date has open = close =
\* starting_price when starting_price is given, otherwise open = close =
\* the first underlying close times leverage (stored rounded to 6
\* decimals), and overnight_rate = day_rate = rate = 0; the same price is
\* the prev_close_t of the second day, and it is the only bar stored so far.
C23_FirstDay ==
  [][FirstDayStored =>
       /\ DOMAIN out' = {SimDates[1]}
       /\ out'[SimDates[1]].open = Round6(FirstDayPrice)
       /\ out'[SimDates[1]].close = Round6(FirstDayPrice)
       /\ out'[SimDates[1]].overnight_rate = RZero
       /\ out'[SimDates[1]].day_rate = RZero
       /\ out'[SimDates[1]].rate = RZero
       /\ REq(prev_close_t', FirstDayPrice)
       /\ sim_i' = 2]_vars

\* the first bar has been stored at a starting_price that differs from the
\* first underlying close times leverage
C23_Witness ==
  /\ pc = "loop" /\ sim_i = 2
  /\ params.starting_price # None
  /\ ~REq(params.starting_price[1],
          RMul(underlying_data[SimDates[1]].close, params.leverage))
  /\ REq(out[SimDates[1]].close, params.starting_price[1])

\* the first bar has been stored at the first underlying close times a
\* leverage that is not 1, no starting_price being given
DefaultStartStored ==
  /\ pc = "loop" /\ sim_i = 2
  /\ params.starting_price = None
  /\ underlying_data[SimDates[1]].close.s > 0
  /\ ~REq(params.leverage, ROne)
  /\ REq(out[SimDates[1]].close,
         RMul(underlying_data[SimDates[1]].close, params.leverage))

\* the underlying bar at position j has a positive open and a positive close
ValidPrices(j) ==
  underlying_data[SimDates[j]].open.s > 0 /\ underlying_data[SimDates[j]].close.s > 0

\* the position of the last valid underlying close before position i > 1:
\* the first date, or the latest later date with valid prices; the first
\* date throughout when its close is not positive
LastValidBefore(i) ==
  IF underlying_data[SimDates[1]].close.s <= 0 THEN 1
  ELSE MaxOf({j \in 1..(i - 1) : j = 1 \/ ValidPrices(j)})

LastValidClose(i) == underlying_data[SimDates[LastValidBefore(i)]].close

\* the open of a day whose overnight return is measured from prev_u
OpenMeasuredFrom(prev_u) ==
  Round6(RMul(prev_close_t,
              RAdd(RAdd(ROne, RMul(params.leverage,
                                   RSub(RDiv(UnderNow.open, prev_u), ROne))),
                   RDiv(tracking_error_daily, RInt(2)))))

\* the bar is a flat copy of the bar of the first date
FlatCopyOfStart(bar) ==
  /\ bar.open = out[SimDates[1]].open /\ bar.close = out[SimDates[1]].close
  /\ bar.overnight_rate = RZero /\ bar.day_rate = RZero /\ bar.rate = RZero

\* C27: in the loop prev_close_u is the last valid underlying close: it is
\* not advanced on a degenerate day and is only ever replaced by a close
\* > 0, so the overnight return of the next valid day is measured from the
\* last valid underlying close; and if the first underlying close is <= 0,
\* every later bar is a flat copy of the starting price with all rates 0.
C27_CarriedUnderlyingClose ==
  [][(pc = "loop" /\ sim_i <= Len(SimDates)) =>
       /\ prev_close_u = LastValidClose(sim_i)
       /\ DegenerateNow => prev_close_u' = prev_close_u
       /\ prev_close_u' # prev_close_u =>
            (prev_close_u'.s > 0 /\ prev_close_u' = UnderNow.close)
       /\ RegularDayStored => BarStored.open = OpenMeasuredFrom(LastValidClose(sim_i))
       /\ (underlying_data[SimDates[1]].close.s <= 0) =>
            (pc' = "loop" /\ FlatCopyOfStart(BarStored))]_vars

\* a regular day has been stored after a day skipped for a close that was
\* not positive, its overnight return measured from the close before that
C27_Witness ==
  /\ pc = "loop" /\ sim_i = 4
  /\ underlying_data[SimDates[2]].close.s <= 0
  /\ prev_close_u = underlying_data[SimDates[3]].close
  /\ out[SimDates[2]].rate = RZero
  /\ out[SimDates[3]].overnight_rate # RZero

\* a series whose first close is not positive has been returned flat
FlatAfterBadFirstClose ==
  /\ pc = "returned" /\ Len(SimDates) = MaxSimDays
  /\ underlying_data[SimDates[1]].close.s <= 0
  /\ ValidPrices(2) /\ ValidPrices(3)
  /\ \A i \in 2..Len(SimDates) :
        result.val[SimDates[i]].close = result.val[SimDates[1]].close

\* every underlying open and close is positive, and so is the starting price
PositiveInputs ==
  /\ DOMAIN underlying_data # {}
  /\ \A i \in 1..Len(SimDates) : ValidPrices(i)
  /\ FirstDayPrice.s > 0

\* C29: given an underlying series whose opens and closes are all > 0 and a
\* starting price > 0, every bar the simulation emits has open > 0 and
\* close > 0, for every leverage, cost and tracking-error setting.
C29_SimulatedPricesPositive ==
  (pc \in {"loop", "returned"} /\ PositiveInputs) =>
     \A date \in DOMAIN out : out[date].open.s > 0 /\ out[date].close.s > 0

\* a series with positive prices has been returned with a bar that closes
\* at zero
ZeroCloseReturned ==
  /\ pc = "returned" /\ PositiveInputs
  /\ \E date \in DOMAIN result.val : result.val[date].close = RZero

----------------------------------------------------------------------------
(* SpecRates: one call of a rate recomputation on a series, and a second   *)
(* call on what the first returned                                         *)

\* longest series drawn
MaxRateBars == 3

\* the bars drawn: a rise, a fall, a zero open, a zero close, a bar that
\* arrives with rates, and a collapse within the day
RateBars == {Bar(RInt(4), RInt(5)), Bar(RInt(6), RInt(4)), Bar(RZero, RInt(5)),
             Bar(RInt(5), RZero), RatedBar(RInt(4), RInt(5), RInt(7)),
             Bar(RInt(7000), RInt(3))}

RateInputs == {SeriesFrom(seq, 1) : seq \in SeqsUpTo(RateBars, MaxRateBars)}

RateFunctions == {"merge_and_calculate", "recalc_rates_full", "calculate_metrics"}

\* the call of the named function; calculate_metrics is called as on a
\* ticker without stored data, where every date is new
CallRate(name, series) ==
  IF name = "merge_and_calculate" THEN merge_and_calculate(series)
  ELSE IF name = "recalc_rates_full" THEN recalc_rates_full(series)
  ELSE calculate_metrics(EmptySeries, series, EmptySeries)

InitRates ==
  /\ pc = "rate"
  /\ data_dict \in RateInputs
  /\ fn \in RateFunctions
  /\ result = Unused /\ again = Unused
  /\ SimUnused /\ PipeUnused /\ FileUnused /\ UpdUnused

RateCall ==
  /\ pc = "rate"
  /\ result' = CallRate(fn, data_dict)
  /\ pc' = IF result'.exc = "none" THEN "rated" ELSE "rate raised"
  /\ UNCHANGED <<data_dict, fn, again, simVars, pipeVars, fileVars, updVars>>

RateAgain ==
  /\ pc = "rated"
  /\ again' = CallRate(fn, result.val)
  /\ pc' = "rerated"
  /\ UNCHANGED <<data_dict, fn, result, simVars, pipeVars, fileVars, updVars>>

NextRates == RateCall \/ RateAgain

SpecRates == InitRates /\ [][NextRates]_vars

RateDates == SortedDates(data_dict)

\* the divisor of the day rate, or of the overnight and combined rates, of
\* the bar at position i is zero
ZeroOpenAt(i) == data_dict[RateDates[i]].open.s = 0
ZeroPrevCloseAt(i) == i > 1 /\ data_dict[RateDates[i - 1]].close.s = 0

\* C13: when a bar's open or the previous bar's close is zero, the rate
\* recomputation (merge_and_calculate, recalc_rates_full, calculate_metrics)
\* does not raise, stores 0 for the affected rate, and still returns a bar
\* for every date.
C13_ZeroDivisorSafe ==
  (pc # "rate" /\ \E i \in 1..Len(RateDates) : ZeroOpenAt(i) \/ ZeroPrevCloseAt(i)) =>
    /\ result.exc = "none"
    /\ DOMAIN result.val = DOMAIN data_dict
    /\ \A i \in 1..Len(RateDates) :
         /\ ZeroOpenAt(i) => result.val[RateDates[i]].day_rate = RZero
         /\ ZeroPrevCloseAt(i) =>
              /\ result.val[RateDates[i]].overnight_rate = RZero
              /\ result.val[RateDates[i]].rate = RZero

\* recalc_rates_full alone: the call returns and the rates whose divisor is
\* zero are stored as 0
RecalcZeroDivisorSafe ==
  (pc # "rate" /\ fn = "recalc_rates_full") =>
    /\ result.exc = "none"
    /\ DOMAIN result.val = DOMAIN data_dict
    /\ \A i \in 1..Len(RateDates) :
         /\ ZeroOpenAt(i) => result.val[RateDates[i]].day_rate = RZero
         /\ ZeroPrevCloseAt(i) =>
              /\ result.val[RateDates[i]].overnight_rate = RZero
              /\ result.val[RateDates[i]].rate = RZero

\* the dates, opens and closes of a series, without the other fields
PricesOnly(series) ==
  [date \in DOMAIN series |-> Bar(series[date].open, series[date].close)]

Recomputes == fn \in {"merge_and_calculate", "recalc_rates_full"}

\* the rate fields of a bar, if it has them
RatesOf(bar) ==
  IF {"overnight_rate", "day_rate", "rate"} \subseteq DOMAIN bar
  THEN <<bar.overnight_rate, bar.day_rate, bar.rate>> ELSE <<>>

\* the rate fields of two series agree on every date
SameRates(a, b) ==
  /\ DOMAIN a = DOMAIN b
  /\ \A date \in DOMAIN a : RatesOf(a[date]) = RatesOf(b[date])

\* C6: a second recomputation (merge_and_calculate, recalc_rates_full) of
\* the series the first one returned returns exactly that series, and the
\* rates of the first depend on the dates, opens and closes of its input
\* only: the input stripped of its other fields gets the same rates.
C6_RecomputationIdempotent ==
  (pc = "rerated" /\ Recomputes) =>
    /\ again = result
    /\ SameRates(result.val, CallRate(fn, PricesOnly(data_dict)).val)

\* a series of two bars or more that came with rates has been recomputed
\* twice
C6_Witness ==
  /\ pc = "rerated" /\ Recomputes
  /\ Len(RateDates) >= 2
  /\ \E date \in DOMAIN data_dict :
        /\ "rate" \in DOMAIN data_dict[date]
        /\ data_dict[date].rate # result.val[date].rate

\* (1 + overnight_rate/100) * (1 + day_rate/100) - (1 + rate/100)
CompoundingGap(bar) ==
  RSub(RMul(GrowthOf(bar.overnight_rate), GrowthOf(bar.day_rate)),
       GrowthOf(bar.rate))

\* the two sides of the identity agree within 10^-6 of the combined side
WithinRelative(bar) ==
  RLe(RAbs(CompoundingGap(bar)),
      RMul(Frac(1, 10 ^ 6), RAbs(GrowthOf(bar.rate))))

\* the two sides agree within what the rounding of the three rates to
\* RoundDigits decimals can move them: 10^-8 for each of the two factors
\* and for the combined side
WithinRounding(bar) ==
  RLe(RAbs(CompoundingGap(bar)),
      RMul(Frac(1, 10 ^ (RoundDigits + 2)),
           RAdd(ROne, RAdd(RAbs(GrowthOf(bar.overnight_rate)),
                           RAbs(GrowthOf(bar.day_rate))))))

\* the positions of the bars that have a predecessor and whose rates all
\* have a positive divisor
Compounded ==
  {i \in 2..Len(RateDates) :
     /\ data_dict[RateDates[i]].open.s > 0
     /\ data_dict[RateDates[i - 1]].close.s > 0}

SimCompoundingRounded ==
  \A date \in DOMAIN out : WithinRounding(out[date])

----------------------------------------------------------------------------
(* SpecCal: the calls of simulate_leveraged_etf_from_underlying that       *)
(* calibrate the tracking error against a real series                      *)

\* longest underlying series drawn for a calibrating call
MaxCalDays == 3

\* the underlying days drawn: a rise to 5, a fall to 4, and a close of zero
CalDayBars == {<<4, 5>>, <<6, 4>>, <<5, 0>>}

\* a real series with the given closes on the dates first, first + 1, ...
CalReal(closes, first) ==
  SeriesFrom([i \in 1..Len(closes) |-> Bar(RInt(closes[i]), RInt(closes[i]))], first)

\* real series: flat, swinging, moving by a quarter of a thousandth,
\* starting after the first underlying date, disjoint from the underlying
\* dates, and with a close of zero
CalFlat == CalReal(<<7, 7, 7, 7>>, 1)
CalSwing == CalReal(<<7, 14, 7, 7>>, 1)
CalTrack == CalReal(<<4000, 3999, 8000, 3999>>, 1)
CalLate == CalReal(<<7, 14, 7>>, 2)
CalDisjoint == CalReal(<<7, 14>>, 11)
CalZero == CalReal(<<0, 7, 7>>, 1)

CalParams(calibration_method, trim_fraction, calibrate_with_real) ==
  [SoxlParams(calibration_method, calibrate_with_real)
     EXCEPT !.trim_fraction = trim_fraction]

CalParamInputs ==
  {CalParams("mean", SOXL_TRIM_FRACTION, CalFlat),
   CalParams("mean", SOXL_TRIM_FRACTION, CalSwing),
   CalParams("median", SOXL_TRIM_FRACTION, CalSwing),
   CalParams("median", SOXL_TRIM_FRACTION, CalTrack),
   CalParams("trimmed", SOXL_TRIM_FRACTION, CalSwing),
   CalParams("trimmed", Frac(1, 2), CalSwing),
   CalParams("trimmed", Frac(2, 5), CalTrack),
   CalParams("mean", SOXL_TRIM_FRACTION, CalLate),
   CalParams("median", SOXL_TRIM_FRACTION, CalDisjoint),
   CalParams("trimmed", SOXL_TRIM_FRACTION, CalZero)}

CalUnderlyingInputs ==
  {SeriesFrom(IntBars(seq), 1) : seq \in SeqsUpTo(CalDayBars, MaxCalDays)}

InitCal ==
  /\ pc = "call"
  /\ underlying_data \in CalUnderlyingInputs
  /\ params \in CalParamInputs
  /\ sim_i = 0 /\ prev_close_t = Unused /\ prev_close_u = Unused
  /\ tracking_error_daily = Unused /\ out = Unused
  /\ result = Unused
  /\ RateUnused /\ PipeUnused /\ FileUnused /\ UpdUnused

SpecCal == InitCal /\ [][NextSim]_vars

\* the call calibrates: lines 419-421
Calibrates ==
  /\ DOMAIN underlying_data # {}
  /\ params.tracking_error_daily = None
  /\ DOMAIN params.calibrate_with_real # {}
  /\ params.calibration_method \in {"mean", "median", "trimmed"}

\* the uncapped estimate of the call, when residuals were collected
CalEstimate ==
  Aggregate(CalibrationDiffs(underlying_data, SimDates, params).val, params)

\* residuals were collected without an exception
CalHasDiffs ==
  /\ Overlaps(SimDates, params.calibrate_with_real) # <<>>
  /\ CalibrationDiffs(underlying_data, SimDates, params).exc = "none"
  /\ CalibrationDiffs(underlying_data, SimDates, params).val # <<>>

\* C11: whenever the simulation calibrates the tracking error from overlap
\* data, the tracking_error_daily it then uses lies within
\* [-max_abs_tracking_error, +max_abs_tracking_error]; an estimate above the
\* interval is used as +max_abs_tracking_error, one below it as
\* -max_abs_tracking_error, and one inside it as it is.
C11_CalibrationBounded ==
  (pc \in {"loop", "returned"} /\ Calibrates) =>
    /\ RLe(RNeg(params.max_abs_tracking_error), tracking_error_daily)
    /\ RLe(tracking_error_daily, params.max_abs_tracking_error)
    /\ CalHasDiffs =>
         /\ RLt(params.max_abs_tracking_error, CalEstimate)
              => REq(tracking_error_daily, params.max_abs_tracking_error)
         /\ RLt(CalEstimate, RNeg(params.max_abs_tracking_error))
              => REq(tracking_error_daily, RNeg(params.max_abs_tracking_error))
         /\ (RLe(RNeg(params.max_abs_tracking_error), CalEstimate)
               /\ RLe(CalEstimate, params.max_abs_tracking_error))
              => REq(tracking_error_daily, CalEstimate)

\* C11 witness: a calibrating call whose estimate was above the cap and is
\* used as the cap
C11_Witness ==
  /\ pc = "returned" /\ Calibrates /\ CalHasDiffs
  /\ RLt(params.max_abs_tracking_error, CalEstimate)
  /\ REq(tracking_error_daily, params.max_abs_tracking_error)

\* a calibrating call whose estimate was below the interval
C11_ClampedBelow ==
  /\ pc = "returned" /\ Calibrates /\ CalHasDiffs
  /\ RLt(CalEstimate, RNeg(params.max_abs_tracking_error))

\* a calibrating call whose nonzero estimate was inside the interval
C11_Inside ==
  /\ pc = "returned" /\ Calibrates /\ CalHasDiffs
  /\ tracking_error_daily.s # 0
  /\ REq(tracking_error_daily, CalEstimate)

\* the call raised before the first bar was emitted, that is, in the
\* calibration step
CalibrationRaised == pc = "raised" /\ sim_i = 0

\* the two series share no usable overlap: no residual can be collected
NoUsableOverlap ==
  \/ Overlaps(SimDates, params.calibrate_with_real) = <<>>
  \/ SimDates[1] \notin DOMAIN params.calibrate_with_real

\* C12: for any underlying series and any real series passed as
\* calibrate_with_real, the calibration step completes without raising, and
\* when the two series share no usable overlap the tracking error used is 0.
C12_CalibrationNeverFails ==
  (pc # "call" /\ Calibrates) =>
    /\ ~CalibrationRaised
    /\ (NoUsableOverlap /\ pc \in {"loop", "returned"}) => tracking_error_daily = RZero

\* the overlap: the dates present in both the underlying and the real
\* series, in date order
OverlapDates ==
  SortSet(DOMAIN underlying_data \cap DOMAIN params.calibrate_with_real)

\* the close-to-close return of a series from the date prev into the date d
CloseReturn(series, prev, d) == RSub(RDiv(series[d].close, series[prev].close), ROne)

\* r_real - (leverage * r_u - fee_daily) for the overlap date at position
\* i > 1, the returns taken from the overlap date before it
OverlapResidual(i) ==
  RSub(CloseReturn(params.calibrate_with_real, OverlapDates[i - 1], OverlapDates[i]),
       RSub(RMul(params.leverage,
                 CloseReturn(underlying_data, OverlapDates[i - 1], OverlapDates[i])),
            RDiv(params.annual_expense_ratio, params.trading_days_per_year)))

\* the residuals the calibration of the call collects
CollectedDiffs == CalibrationDiffs(underlying_data, SimDates, params).val

\* the calibration has run to its end on an overlap of two dates or more
CalibratedOnOverlap ==
  /\ pc \in {"loop", "returned"} /\ Calibrates
  /\ Len(OverlapDates) >= 2

\* C24: when calibration runs and the overlap has n >= 2 dates, exactly
\* n - 1 residuals are collected, one for each overlap date after the
\* first, each equal to r_real - (leverage * r_u - fee_daily) with r_u and
\* r_real the close-to-close returns of the underlying and of the real
\* series into that date.
C24_CalibrationResiduals ==
  CalibratedOnOverlap =>
    /\ Len(CollectedDiffs) = Len(OverlapDates) - 1
    /\ \A i \in 2..Len(OverlapDates) : REq(CollectedDiffs[i - 1], OverlapResidual(i))

\* a calibration on an overlap of two dates that does not hold the earliest
\* underlying date has collected no residual and uses no tracking error
NoResidualFromLateOverlap ==
  /\ CalibratedOnOverlap
  /\ SimDates[1] \notin DOMAIN params.calibrate_with_real
  /\ CollectedDiffs = <<>>
  /\ tracking_error_daily = RZero

\* a calibration on an overlap that holds the earliest underlying date has
\* collected one residual for each later overlap date
ResidualsFromFirstDate ==
  /\ CalibratedOnOverlap
  /\ SimDates[1] \in DOMAIN params.calibrate_with_real
  /\ Len(OverlapDates) = MaxCalDays
  /\ Len(CollectedDiffs) = MaxCalDays - 1
  /\ \A i \in 2..Len(OverlapDates) : REq(CollectedDiffs[i - 1], OverlapResidual(i))

\* the call calibrates and the earliest underlying date is not a date of
\* the real series
EarliestNotReal ==
  Calibrates /\ SimDates[1] \notin DOMAIN params.calibrate_with_real

\* the uncalibrated pass: the same call with calibration_method "none" and
\* no real series
UncalibratedPass ==
  simulate_leveraged_etf_from_underlying(
    underlying_data,
    [params EXCEPT !.calibration_method = "none", !.calibrate_with_real = EmptySeries])

\* C28: if the earliest underlying date is not a date of the real series,
\* the calibration collects no residuals and sets tracking_error_daily to
\* 0, so the calibrated pass ends exactly as the uncalibrated pass does,
\* with the same series.
C28_CalibratedPassSame ==
  (pc \in {"returned", "raised"} /\ EarliestNotReal) =>
    /\ ~CalibrationRaised
    /\ tracking_error_daily = RZero
    /\ result = UncalibratedPass

\* the same for the calls whose calibration step does not raise
CalibratedPassSameUnlessRaised ==
  (pc \in {"returned", "raised"} /\ EarliestNotReal /\ ~CalibrationRaised) =>
    /\ tracking_error_daily = RZero
    /\ result = UncalibratedPass

\* a calibrated pass on an overlap of two dates without the earliest
\* underlying date has returned the series of the uncalibrated pass
LateOverlapPassSame ==
  /\ pc = "returned" /\ EarliestNotReal
  /\ Len(OverlapDates) >= 2
  /\ result = UncalibratedPass
  /\ result.val[SimDates[Len(SimDates)]].rate # RZero

\* the calibration has raised on an underlying close of zero where the
\* uncalibrated pass returns a series
CalibratedPassRaisedAlone ==
  /\ pc = "raised" /\ EarliestNotReal /\ CalibrationRaised
  /\ UncalibratedPass.exc = "none"

----------------------------------------------------------------------------
(* SpecRise: the simulation of an underlying that rises by one constant    *)
(* day return, with no overnight move                                      *)

\* longest rising series drawn
MaxRiseDays == 4

\* the day returns and the first closes drawn
RiseReturns == {Frac(1, 100), Frac(1, 4), Frac(1, 1000)}
RiseFirstCloses == {RInt(4), RInt(100)}

\* the bars of a rising series: each open is the previous close, each close
\* is the open times (1 + g)
RECURSIVE RiseBars(_, _, _)
RiseBars(prev_close, g, n) ==
  IF n = 0 THEN <<>>
  ELSE <<Bar(prev_close, RMul(prev_close, RAdd(ROne, g)))>>
         \o RiseBars(RMul(prev_close, RAdd(ROne, g)), g, n - 1)

RiseSeries(first_close, g, n) ==
  SeriesFrom(<<Bar(first_close, first_close)>> \o RiseBars(first_close, g, n - 1), 1)

RiseUnderlyingInputs ==
  {RiseSeries(c, g, n) : c \in RiseFirstCloses, g \in RiseReturns, n \in 1..MaxRiseDays}

\* zero costs, the expense ratio alone, and the expense ratio with the
\* borrow cost; with the default start price and with starting_price = 100
RiseCostInputs ==
  {[DefaultParams EXCEPT !.annual_expense_ratio = RZero,
                         !.additional_annual_borrow_cost = RZero],
   [DefaultParams EXCEPT !.additional_annual_borrow_cost = RZero],
   DefaultParams}

RiseParamInputs ==
  RiseCostInputs \cup {[p EXCEPT !.starting_price = Some(RInt(100))] : p \in RiseCostInputs}

InitRise ==
  /\ pc = "call"
  /\ underlying_data \in RiseUnderlyingInputs
  /\ params \in RiseParamInputs
  /\ sim_i = 0 /\ prev_close_t = Unused /\ prev_close_u = Unused
  /\ tracking_error_daily = Unused /\ out = Unused
  /\ result = Unused
  /\ RateUnused /\ PipeUnused /\ FileUnused /\ UpdUnused

SpecRise == InitRise /\ [][NextSim]_vars

\* the call has no costs
ZeroCosts ==
  /\ params.annual_expense_ratio.s = 0
  /\ params.additional_annual_borrow_cost.s = 0
  /\ params.extra_daily_drift.s = 0

\* the constant day return of the underlying, for a series of two days or more
RiseReturn == RSub(RDiv(underlying_data[2].close, underlying_data[2].open), ROne)

\* start * (1 + leverage * k * g): the start price grown by leverage times
\* the simple return of k days
SimpleLeveraged(start, k) ==
  RMul(start, RAdd(ROne, RMul(params.leverage, RMul(RInt(k), RiseReturn))))

\* the same call with annual_expense_ratio = 0
ZeroFeeRun ==
  simulate_leveraged_etf_from_underlying(
    underlying_data, [params EXCEPT !.annual_expense_ratio = RZero]).val

\* C14: for an underlying that rises by a constant positive day return with
\* no overnight move, the simulated close with zero costs exceeds
\* start * (1 + leverage * k * g) on the k-th simulated day for every k >= 2,
\* and with annual_expense_ratio > 0 the simulated close of every day after
\* the first is strictly below that of the same call with a zero expense ratio.
C14_LeverageMonotonicity ==
  pc \in {"loop", "returned"} =>
    \A d \in DOMAIN out :
      /\ (ZeroCosts /\ d >= 3)
           => RLt(SimpleLeveraged(out[1].close, d - 1), out[d].close)
      /\ (params.annual_expense_ratio.s > 0 /\ d >= 2)
           => RLt(out[d].close, ZeroFeeRun[d].close)

\* C14 witness: a zero-cost run of the longest rising series has returned
C14_Witness ==
  /\ pc = "returned" /\ ZeroCosts
  /\ Cardinality(DOMAIN result.val) = MaxRiseDays
  /\ RLt(SimpleLeveraged(out[1].close, MaxRiseDays - 1), result.val[MaxRiseDays].close)

\* a run with a positive expense ratio has returned below its zero-fee run
C14_FeeRunReached ==
  /\ pc = "returned" /\ params.annual_expense_ratio.s > 0
  /\ Cardinality(DOMAIN result.val) = MaxRiseDays
  /\ RLt(result.val[MaxRiseDays].close, ZeroFeeRun[MaxRiseDays].close)

----------------------------------------------------------------------------
(* SpecSave: one call of save_data                                         *)

\* most entries of the existing file and of the new data
MaxSaveEntries == 5

\* a series of n bars on the dates 1..n of which the first v are valid
\* (the others have an open of 0 or no open at all)
SaveSeries(n, v, price) ==
  [date \in 1..n |-> IF date <= v THEN Bar(RInt(price), RInt(price))
                     ELSE IF date % 2 = 0 THEN Bar(RZero, RInt(price))
                     ELSE [close |-> RInt(price)]]

\* the existing files: absent, unreadable, and JSON of 0..MaxSaveEntries bars
SaveFiles == {AbsentFile, CorruptFile}
               \cup {JsonFile(SaveSeries(n, n, 1)) : n \in 0..MaxSaveEntries}

\* the new data: n bars of which v are valid
SaveData == {SaveSeries(n, v, 2) : n \in 0..MaxSaveEntries, v \in 0..MaxSaveEntries}

SaveResponses == {None, Some("y"), Some("Y"), Some("n"), Some(""), Some("yes")}
SaveIO == {"ok", "open raises", "dump raises"}

InitSave ==
  /\ pc = "save"
  /\ stored \in SaveFiles
  /\ data \in SaveData
  /\ response \in SaveResponses
  /\ io \in SaveIO
  /\ result = Unused
  /\ SimUnused /\ RateUnused /\ PipeUnused /\ UpdUnused

\* lines 575-661: the whole call
SaveCall ==
  /\ pc = "save"
  /\ result' = [exc |-> save_data(stored, data, response, io).exc,
                val |-> save_data(stored, data, response, io).val]
  /\ stored' = save_data(stored, data, response, io).file
  /\ pc' = IF result'.exc = "none" THEN "saved" ELSE "save raised"
  /\ UNCHANGED <<data, response, io, simVars, rateVars, pipeVars, updVars>>

NextSave == SaveCall

SpecSave == InitSave /\ [][NextSave]_vars

\* the user answers 'y' to the prompt
AnswersYes == response # None /\ Lower(response[1]) = "y"

\* the three guards of the claim, on the new data and the entry count of
\* the file as it was before the call
EmptyGuard == DOMAIN data = {}
QualityGuard == ValidEntries(data) * 2 < Count(data)
SizeGuard(existing_count) == Count(data) * 5 < existing_count * 4 /\ ~AnswersYes

\* C15: an existing non-empty <ticker>.json is left unchanged whenever the
\* new data is empty, or fewer than 50% of the new entries have numeric
\* open > 0 and close > 0, or the new data has fewer than 80% as many
\* entries as the existing file and the user does not answer 'y' (in either
\* case); the file is changed only when none of these guards applies.
C15_NeverOverwriteWithWorse ==
  [][\A n \in 1..(MaxSaveEntries + 1) :
       (stored.state = "json" /\ Count(stored.content) = n) =>
         /\ (EmptyGuard \/ QualityGuard \/ SizeGuard(n)) => stored' = stored
         /\ stored' # stored => ~(EmptyGuard \/ QualityGuard \/ SizeGuard(n))]_vars

\* C15 witness: a non-empty file was kept although the user answered 'y'
\* to the size prompt, because the new data is of poor quality
C15_Witness ==
  /\ pc = "saved"
  /\ stored.state = "json" /\ Count(stored.content) = MaxSaveEntries
  /\ Count(data) \in 1..3 /\ AnswersYes /\ QualityGuard

\* a non-empty file was replaced by the new data
C15_Replaced ==
  /\ pc = "saved" /\ io = "ok"
  /\ stored = JsonFile(data) /\ Count(data) = MaxSaveEntries - 1

----------------------------------------------------------------------------
(* SpecPipe: the SOXL part of download_complete_data, a step at a time     *)

\* longest pre-launch underlying series and longest real series drawn
MaxPipeDays == 2

\* underlying days: a rise and a fall of a third (leveraged to zero)
PipeSoxxBars == {<<4, 5>>, <<6, 4>>}

\* real bars as the fetchers hand them on: open > 0 and close > 0
PipeRealBars == {Bar(RInt(2), RInt(3)), Bar(RInt(4), RInt(2))}

\* the underlying: pre-launch bars, with or without a bar on the launch date
PipeSoxxInputs ==
  {SeriesUpdate(SeriesFrom(IntBars(seq), 1), post) :
     seq \in SeqsUpTo(PipeSoxxBars, MaxPipeDays),
     post \in {EmptySeries, SeriesFrom(<<Bar(RInt(5), RInt(5))>>, LaunchDate)}}

\* an answer of the providers that begins before the launch date, on the
\* second underlying date (download_hybrid_data keeps the dates it is given)
PipeEarlyReal == SeriesFrom(<<Bar(RInt(2), RInt(3)), Bar(RInt(4), RInt(2))>>, 2)

\* what download_hybrid_data returns: {} when all sources fail
PipeRealInputs ==
  {SeriesFrom(seq, LaunchDate) : seq \in SeqsUpTo(PipeRealBars, MaxPipeDays)}
    \cup {PipeEarlyReal}

\* the SOXL.json found on disk
PipeFiles == {AbsentFile, CorruptFile, JsonFile(SaveSeries(1, 1, 1)),
              JsonFile(SaveSeries(5, 5, 1))}

InitPipe ==
  /\ pc = "pipe"
  /\ soxx_data \in PipeSoxxInputs
  /\ stored \in PipeFiles
  /\ soxl_real_data = Unused /\ simulated_soxl = Unused
  /\ raw_real_soxl_data = Unused /\ adjusted_real_soxl = Unused
  /\ soxl_data_out = Unused
  /\ data = Unused /\ response = Unused /\ io = Unused
  /\ result = Unused
  /\ SimUnused /\ RateUnused /\ UpdUnused

\* lines 782-793: the first pass of the simulation, without calibration
PipeSimulate ==
  /\ pc = "pipe"
  /\ result' = simulate_leveraged_etf_from_underlying(
                  EarlySoxx(soxx_data), SoxlParams("none", EmptySeries))
  /\ IF result'.exc = "none"
     THEN pc' = "download" /\ simulated_soxl' = result'.val
     ELSE pc' = "except" /\ UNCHANGED simulated_soxl
  /\ UNCHANGED <<soxx_data, soxl_real_data, raw_real_soxl_data, adjusted_real_soxl,
                 soxl_data_out, simVars, rateVars, fileVars, updVars>>

\* lines 795-798: download_hybrid_data returns a series or raises
PipeDownload ==
  /\ pc = "download"
  /\ \/ \E real \in PipeRealInputs :
          /\ soxl_real_data' = real
          /\ pc' = IF DOMAIN real = {} THEN "no real" ELSE "process"
     \/ pc' = "except" /\ UNCHANGED soxl_real_data
  /\ UNCHANGED <<soxx_data, simulated_soxl, raw_real_soxl_data, adjusted_real_soxl,
                 soxl_data_out, result, simVars, rateVars, fileVars, updVars>>

\* lines 800-827: no real data; an existing file that loads ends the run
PipeNoReal ==
  /\ pc = "no real"
  /\ IF UsableFile(stored)
     THEN pc' = "kept existing" /\ UNCHANGED soxl_data_out
     ELSE pc' = "save" /\ soxl_data_out' = simulated_soxl
  /\ UNCHANGED <<soxx_data, soxl_real_data, simulated_soxl, raw_real_soxl_data,
                 adjusted_real_soxl, result, simVars, rateVars, fileVars, updVars>>

PipeProcessed(processed) ==
  IF processed.exc # "none"
  THEN /\ pc' = "except"
       /\ result' = Raised(processed.exc)
       /\ UNCHANGED <<simulated_soxl, raw_real_soxl_data, adjusted_real_soxl,
                      soxl_data_out>>
  ELSE /\ pc' = "save"
       /\ raw_real_soxl_data' = processed.raw_real_soxl_data
       /\ simulated_soxl' = processed.simulated_soxl
       /\ adjusted_real_soxl' = processed.adjusted_real_soxl
       /\ soxl_data_out' = processed.soxl_data_out
       /\ UNCHANGED result

\* lines 829-887: rates of the real bars, second pass of the simulation,
\* splice, merge and recalculation
PipeProcess ==
  /\ pc = "process"
  /\ PipeProcessed(ProcessReal(soxx_data, simulated_soxl, soxl_real_data))
  /\ UNCHANGED <<soxx_data, soxl_real_data, simVars, rateVars, fileVars, updVars>>

PipeSaved(saved) ==
  /\ stored' = saved.file
  /\ result' = [exc |-> saved.exc, val |-> saved.val]
  /\ pc' = IF saved.exc = "none" THEN "finished" ELSE "except"

\* line 889: save_data("SOXL", soxl_data_out, output_dir)
PipeSave ==
  /\ pc = "save"
  /\ data' = soxl_data_out
  /\ \E r \in {None, Some("y"), Some("n")}, w \in SaveIO :
       /\ response' = r /\ io' = w
       /\ PipeSaved(save_data(stored, soxl_data_out, r, w))
  /\ UNCHANGED <<pipeVars, simVars, rateVars, updVars>>

\* lines 891-915: the handler of an exception raised by a step above
PipeExcept ==
  /\ pc = "except"
  /\ pc' = IF UsableFile(stored) THEN "preserved existing" ELSE "failed"
  /\ UNCHANGED <<result, pipeVars, simVars, rateVars, fileVars, updVars>>

NextPipe ==
  PipeSimulate \/ PipeDownload \/ PipeNoReal \/ PipeProcess \/ PipeSave \/ PipeExcept

SpecPipe == InitPipe /\ [][NextPipe]_vars

\* SOXL.json exists and loads, before and after a step
ExistingLoads == stored.state = "json"
ExistingLoadsNext == stored'.state = "json"

\* C16: when no real SOXL data can be downloaded and an existing SOXL.json
\* can be loaded, or when the processing raises, the run ends without
\* writing SOXL.json; the file changes only in the save step, and the
\* simulated-only series reaches the save step only when no existing
\* SOXL.json is usable.
C16_FallbackToExisting ==
  [][/\ (pc = "no real" /\ ExistingLoads)
          => (pc' = "kept existing" /\ stored' = stored)
     /\ pc = "except"
          => (stored' = stored /\ pc' \in {"preserved existing", "failed"}
              /\ (ExistingLoads => pc' = "preserved existing"))
     /\ stored' # stored => pc = "save"
     /\ (pc' = "save" /\ DOMAIN soxl_real_data' = {}) => ~ExistingLoadsNext]_vars

\* C16 witness: a run without real data ended on the existing file
C16_Witness ==
  /\ pc = "kept existing" /\ ExistingLoads
  /\ DOMAIN soxl_real_data = {} /\ DOMAIN simulated_soxl # {}

\* a run whose processing raised ended on the existing file
C16_PreservedAfterRaise ==
  pc = "preserved existing" /\ ExistingLoads /\ result.exc = "ZeroDivisionError"

\* the simulated-only series was written where no file was usable
C16_SimulatedOnlySaved ==
  /\ pc = "finished" /\ DOMAIN soxl_real_data = {}
  /\ DOMAIN simulated_soxl # {} /\ stored = JsonFile(simulated_soxl)

\* the branch with real data has merged the two segments
MergedNow == pc = "save" /\ DOMAIN raw_real_soxl_data # {}

MergedDates == SortedDates(soxl_data_out)

\* the rates of the bar at position i, from the prices of the merged series
RatesFromPrices(i) ==
  LET bar == soxl_data_out[MergedDates[i]]
  IN  IF i = 1
      THEN <<RZero, Round6(PctOf(bar.close, bar.open)), RZero>>
      ELSE <<Round6(PctOf(bar.open, soxl_data_out[MergedDates[i - 1]].close)),
             Round6(PctOf(bar.close, bar.open)),
             Round6(PctOf(bar.close, soxl_data_out[MergedDates[i - 1]].close))>>

\* C5: once the simulated and the scaled real segments are merged, every bar
\* of the merged series has overnight_rate = (open/prev_close - 1) * 100,
\* day_rate = (close/open - 1) * 100 and rate = (close/prev_close - 1) * 100
\* from the merged prices, rounded to 6 decimals (first bar: overnight_rate
\* = rate = 0), whatever rates the bars carried; the merged series has the
\* dates and the prices of the two segments, the real one winning.
C5_MergedRatesRecomputed ==
  MergedNow =>
    /\ DOMAIN soxl_data_out = DOMAIN simulated_soxl \cup DOMAIN adjusted_real_soxl
    /\ \A i \in 1..Len(MergedDates) :
         /\ RatesOf(soxl_data_out[MergedDates[i]]) = RatesFromPrices(i)
         /\ LET date == MergedDates[i]
                from == IF date \in DOMAIN adjusted_real_soxl
                        THEN adjusted_real_soxl[date] ELSE simulated_soxl[date]
            IN  /\ soxl_data_out[date].open = from.open
                /\ soxl_data_out[date].close = from.close

\* a simulated and a real segment are merged, and the first real bar, which
\* came with a combined rate of 0, has got the rate against the last
\* simulated close
C5_Witness ==
  /\ MergedNow
  /\ DOMAIN simulated_soxl # {}
  /\ adjusted_real_soxl[LaunchDate].rate = RZero
  /\ soxl_data_out[LaunchDate].rate # RZero
  /\ MergedDates[1] < LaunchDate

\* the dates in the order soxl_data_out has them: that of sorted_dates
EmittedDates == SortedDates(soxl_data_out)

\* the dates that both segments have
DatesInBoth == DOMAIN simulated_soxl \cap DOMAIN adjusted_real_soxl

C7_MergedMovingAverage ==
  MergedNow =>
    \A i \in 1..Len(MergedDates) :
       /\ "sma200" \in DOMAIN soxl_data_out[MergedDates[i]]
       /\ soxl_data_out[MergedDates[i]].sma200
            = Sma200(ClosePrices(soxl_data_out, MergedDates), i)

\* the merged series is there and no bar of it has a moving average field
MergedWithoutAverage ==
  /\ MergedNow
  /\ \A date \in DOMAIN soxl_data_out : "sma200" \notin DOMAIN soxl_data_out[date]

----------------------------------------------------------------------------
(* SpecFetch: one call of a fetcher on the rows a provider answers with    *)

MaxFetchRows == 2

\* a price below half of 10^-6, and the prices a provider may report
TinyPrice == Frac(1, 10 ^ (RoundDigits + 1))
FetchOpens == {None, Some(RZero), Some(RInt(-1)), Some(RInt(4)), Some(TinyPrice)}
FetchCloses == {None, Some(RZero), Some(RInt(5))}
FetchRows ==
  {Row(datetime, open, close) : datetime \in 1..2, open \in FetchOpens, close \in FetchCloses}

Answer(values) == [status |-> "ok", has_values |-> TRUE, values |-> values]
NoAnswer(status) == [status |-> status, has_values |-> FALSE, values |-> <<>>]
FailedAnswers ==
  {NoAnswer("no api key"), NoAnswer("http error"), NoAnswer("api error"), NoAnswer("ok")}
FetchAnswers == {Answer(values) : values \in SeqsUpTo(FetchRows, MaxFetchRows)}

FetchFunctions ==
  {"download_yahoo_finance_data", "download_twelvedata_data", "get_latest_data_twelvedata"}

\* the row loop of the fetcher called name
CallFetch(name, answer, first_date) ==
  IF name = "download_yahoo_finance_data" THEN Returned(YahooConvert(answer.values))
  ELSE IF name = "download_twelvedata_data" THEN Returned(TwelveConvert(answer.values))
  ELSE get_latest_data_twelvedata(answer, first_date)

InitFetch ==
  /\ pc = "fetch"
  /\ fn \in FetchFunctions
  /\ provider \in FetchAnswers \cup (IF fn = "get_latest_data_twelvedata"
                                    THEN FailedAnswers ELSE {})
  /\ start_date \in IF fn = "get_latest_data_twelvedata" THEN 1..2 ELSE {1}
  /\ clock = Unused /\ attempt = 0
  /\ data_dict = Unused /\ again = Unused
  /\ result = Unused
  /\ SimUnused /\ PipeUnused /\ FileUnused

FetchCall ==
  /\ pc = "fetch"
  /\ result' = CallFetch(fn, provider, start_date)
  /\ pc' = IF result'.exc = "none" THEN "fetched" ELSE "fetch raised"
  /\ UNCHANGED <<simVars, rateVars, pipeVars, fileVars, updVars>>

NextFetch == FetchCall

SpecFetch == InitFetch /\ [][NextFetch]_vars

PositiveBar(bar) == bar.open.s > 0 /\ bar.close.s > 0

\* C19: whichever fetcher is called on the rows of a provider, every bar it
\* hands on has open > 0 and close > 0: a row with a missing or non-positive
\* open or close is dropped, not retained.
C19_FetchedBarsPositive ==
  pc = "fetched" =>
     \A date \in DOMAIN result.val : PositiveBar(result.val[date])

\* download_twelvedata_data keeps the positive rows only
TwelveBarsPositive ==
  (pc = "fetched" /\ fn = "download_twelvedata_data") =>
     \A date \in DOMAIN result.val : PositiveBar(result.val[date])

\* download_yahoo_finance_data keeps the rows that are positive before the
\* rounding
YahooBarsPositive ==
  (pc = "fetched" /\ fn = "download_yahoo_finance_data") =>
     \A date \in DOMAIN result.val :
        \/ PositiveBar(result.val[date])
        \/ \E i \in 1..Len(provider.values) :
              /\ provider.values[i].datetime = date
              /\ provider.values[i].open = Some(TinyPrice)

\* get_latest_data_twelvedata hands on a bar with open = 0
LatestKeptZeroOpen ==
  /\ pc = "fetched" /\ fn = "get_latest_data_twelvedata"
  /\ \E date \in DOMAIN result.val : result.val[date].open = RZero

----------------------------------------------------------------------------
(* SpecUpdate: a run of update_ticker, and a second run at the same time   *)
(* against the same provider data                                          *)

MaxNewDays == 2

\* the last date of the stored series
LastStored == 2

\* a stored bar with its metrics
StoredBar(o, c) ==
  [open |-> RInt(o), close |-> RInt(c), overnight_rate |-> RZero,
   day_rate |-> PctDiff(RInt(c), RInt(o)), rate |-> RZero, sma200 |-> RInt(c)]

UpdateFiles ==
  {AbsentFile, CorruptFile, JsonFile(EmptySeries),
   JsonFile(SeriesFrom(<<StoredBar(4, 5)>>, LastStored)),
   JsonFile(SeriesFrom(<<StoredBar(4, 5), StoredBar(5, 2)>>, LastStored - 1))}

\* the rows of a provider: at most one row a date, the newest first, from
\* the last stored date on
UpdateDates == LastStored..(LastStored + MaxNewDays)
UpdatePrices == {<<Some(RInt(4)), Some(RInt(5))>>, <<Some(RInt(6)), Some(RInt(4))>>}
RowChoices == [UpdateDates -> UpdatePrices \cup {None}]

RECURSIVE RowsDown(_, _)
RowsDown(choice, date) ==
  IF date < LastStored THEN <<>>
  ELSE IF choice[date] = None THEN RowsDown(choice, date - 1)
  ELSE <<Row(date, choice[date][1], choice[date][2])>> \o RowsDown(choice, date - 1)

\* rows with a price of zero or a missing price on the first new date, and
\* rows that reach back before the last stored date
OddRows ==
  {<<Row(LastStored + 1, Some(RZero), Some(RInt(5)))>>,
   <<Row(LastStored + 1, Some(RInt(4)), Some(RZero))>>,
   <<Row(LastStored + 1, None, Some(RInt(5)))>>,
   <<Row(LastStored + 1, Some(RInt(4)), Some(RInt(5))),
     Row(LastStored - 1, Some(RInt(4)), Some(RInt(5)))>>}

UpdateAnswers ==
  {Answer(RowsDown(choice, LastStored + MaxNewDays)) : choice \in RowChoices}
    \cup {Answer(values) : values \in OddRows} \cup FailedAnswers

\* just before the open, at the open, at the close
ClockMinutes == {MarketOpenMinute - 1, MarketOpenMinute, MarketCloseMinute}

\* a machine in US/Eastern, one sixteen hours ahead, and one without pytz
\* three hours behind
ClockZones == {<<0, TRUE>>, <<16 * 60, TRUE>>, <<-3 * 60, FALSE>>}

Clocks ==
  {[et_date |-> date, et_minute |-> minute, ahead |-> zone[1], pytz |-> zone[2]] :
     date \in LastStored..(LastStored + MaxNewDays + 1), minute \in ClockMinutes,
     zone \in ClockZones}

InitUpdate ==
  /\ pc = "update"
  /\ stored \in UpdateFiles
  /\ provider \in UpdateAnswers
  /\ clock \in Clocks
  /\ start_date = 0 /\ attempt = 0
  /\ data = Unused /\ response = Unused /\ io = Unused
  /\ result = Unused
  /\ SimUnused /\ RateUnused /\ PipeUnused

\* the response to the request of the split check: the same rows, or a
\* failure of the request
ApiAnswers == {provider, NoAnswer("http error")}

UpdateDone(next, run) ==
  /\ stored' = run.file
  /\ result' = run.ret
  /\ pc' = IF run.ret.exc = "none" THEN next ELSE "update raised"

\* lines 374-462: a run
UpdateRun ==
  /\ pc = "update"
  /\ \E api_answer \in ApiAnswers, w \in SaveIO :
       /\ io' = w
       /\ UpdateDone("updated", update_ticker(stored, clock, provider, api_answer, w))
  /\ UNCHANGED <<data, response, updVars, simVars, rateVars, pipeVars>>

\* a second run after a run that has returned
UpdateAgain ==
  /\ pc = "updated"
  /\ \E api_answer \in ApiAnswers, w \in SaveIO :
       /\ io' = w
       /\ UpdateDone("updated again",
                     update_ticker(stored, clock, provider, api_answer, w))
  /\ UNCHANGED <<data, response, updVars, simVars, rateVars, pipeVars>>

NextUpdate == UpdateRun \/ UpdateAgain

SpecUpdate == InitUpdate /\ [][NextUpdate]_vars

\* the bar of a date in a file: None when the file does not load or has none
BarAt(file, date) ==
  IF file.state = "json" /\ date \in DOMAIN file.content
  THEN Some(file.content[date]) ELSE None

\* the provider has a row dated date
ProviderHas(date) ==
  \E i \in 1..Len(provider.values) : provider.values[i].datetime = date

EasternDateStoredWhileOpen ==
  /\ pc = "updated" /\ clock.pytz /\ ~is_market_closed(clock)
  /\ result.val.new_data_added
  /\ BarAt(stored, clock.et_date) # None
  /\ clock.et_date > LastStored

\* the dates of a file that loads
StoredDates(file) == IF file.state = "json" THEN DOMAIN file.content ELSE {}

\* every date a step adds to the file is later than the dates it had
AddsLaterDates ==
  \A date \in StoredDates(stored') \ StoredDates(stored) :
     \A old \in StoredDates(stored) : date > old

\* a step that writes the file writes the bars it had back as they were
KeepsStoredBars ==
  stored'.state = "json" =>
     \A date \in StoredDates(stored) : BarAt(stored', date) = BarAt(stored, date)

\* the dates a run reports are the dates it has added to the file
ReportsAddedDates ==
  (result'.exc = "none" /\ result'.val.success /\ result'.val.new_data_added) =>
     {result'.val.dates[i] : i \in 1..Len(result'.val.dates)}
        = StoredDates(stored') \ StoredDates(stored)

\* a second run after a successful one adds nothing and says so
SecondRunAddsNothing ==
  (pc = "updated" /\ result.val.success) =>
     /\ result'.exc = "none" /\ ~result'.val.new_data_added
     /\ stored' = stored

StoresSma(v, sma) == IF sma = None THEN v = None ELSE v # None /\ REq(v, sma[1])

\* the file is a series and the bar at position i (from 1) of its dates
\* stores the moving average of the stored closes
SmaStoredAt(file, sorted_dates, i) ==
  StoresSma(file.content[sorted_dates[i]].sma200,
            Sma200(ClosePrices(file.content, sorted_dates), i))

\* the dates the returned run says it has added
AddedDates == {result.val.dates[i] : i \in 1..Len(result.val.dates)}

\* C8: the sma200 that a producer stores at index i (from 0) of the
\* date-ordered closes is null when i < N - 1 and the arithmetic mean of
\* the closes at i - N + 1..i otherwise, N = 200; stated for the bars that
\* a run of update_ticker computes with calculate_metrics and stores.
C8_SmaWindow ==
  (pc = "updated" /\ result.val.new_data_added) =>
     \A i \in 1..Cardinality(StoredDates(stored)) :
        SortedDates(stored.content)[i] \in AddedDates =>
           SmaStoredAt(stored, SortedDates(stored.content), i)

\* a run has added a bar before the 200th and stored its own close as its
\* sma200
CloseStoredAsSma ==
  /\ pc = "updated" /\ result.val.new_data_added
  /\ \E date \in AddedDates :
        /\ Cardinality({d \in StoredDates(stored) : d <= date}) < SMAWindow
        /\ stored.content[date].sma200 = stored.content[date].close

----------------------------------------------------------------------------
(* SpecSplice: one call of adjust_real_soxl_to_simulated                   *)

\* longest simulated and longest real series drawn
MaxSpliceBars == 2

\* simulated bars: flat bars at a close of 0, 3 or 7/2
SpliceSimBars == {FlatBar(RZero), FlatBar(RInt(3)), FlatBar(Frac(7, 2))}

\* a real bar with the prices o and c and three different stored rates
RealBar(o, c) ==
  [open |-> RInt(o), close |-> RInt(c), overnight_rate |-> RInt(10 + o),
   day_rate |-> RInt(20 + c), rate |-> Frac(61 + o, 2)]

\* real bars: a first open that is negative, zero and positive
SpliceRealBars == {RealBar(-1, 2), RealBar(0, 2), RealBar(2, 3), RealBar(4, 2)}

SpliceSimInputs == {SeriesFrom(seq, 1) : seq \in SeqsUpTo(SpliceSimBars, MaxSpliceBars)}
SpliceRealInputs == {SeriesFrom(seq, 11) : seq \in SeqsUpTo(SpliceRealBars, MaxSpliceBars)}

InitSplice ==
  /\ pc = "splice"
  /\ simulated_soxl \in SpliceSimInputs
  /\ raw_real_soxl_data \in SpliceRealInputs
  /\ soxx_data = Unused /\ soxl_real_data = Unused
  /\ adjusted_real_soxl = Unused /\ soxl_data_out = Unused
  /\ result = Unused
  /\ SimUnused /\ RateUnused /\ FileUnused /\ UpdUnused

\* lines 663-705: the whole call
SpliceCall ==
  /\ pc = "splice"
  /\ result' = adjust_real_soxl_to_simulated(simulated_soxl, raw_real_soxl_data)
  /\ pc' = IF result'.exc = "none" THEN "spliced" ELSE "splice raised"
  /\ UNCHANGED <<simVars, rateVars, pipeVars, fileVars, updVars>>

NextSplice == SpliceCall

SpecSplice == InitSplice /\ [][NextSplice]_vars

\* the arguments of the splice are both non-empty
SpliceBothGiven == DOMAIN simulated_soxl # {} /\ DOMAIN raw_real_soxl_data # {}

LastSimClose == simulated_soxl[MaxOf(DOMAIN simulated_soxl)].close
FirstRealDate == MinOf(DOMAIN raw_real_soxl_data)
FirstRealOpen == raw_real_soxl_data[FirstRealDate].open

\* C1: for a non-empty simulated series and a non-empty real series whose
\* first open is > 0, the splice returns a series whose open on its earliest
\* date equals the simulated close on its latest date.
C1_SpliceContinuity ==
  (pc # "splice" /\ SpliceBothGiven /\ FirstRealOpen.s > 0)
    => /\ pc = "spliced"
       /\ REq(result.val[FirstRealDate].open, LastSimClose)

PriceKeys == {"open", "close"}
RateKeys == {"overnight_rate", "day_rate", "rate"}

\* the prices of the bars x1, x2 are those of y1, y2 times one factor
SameFactor(x1, y1, x2, y2) ==
  \A f, g \in PriceKeys : REq(RMul(x1[f], y2[g]), RMul(x2[g], y1[f]))

\* C2: the splice leaves every real bar's overnight_rate, day_rate and rate
\* as they were and changes only open and close, multiplying both by one
\* common nonzero factor on every bar, so that the ratios close/open and
\* close/previous close of the real segment are preserved.
C2_SpliceReturnInvariance ==
  pc = "spliced" =>
    /\ DOMAIN result.val = DOMAIN raw_real_soxl_data
    /\ \A d \in DOMAIN raw_real_soxl_data :
         /\ DOMAIN result.val[d] = PriceKeys \cup RateKeys
         /\ \A k \in RateKeys : result.val[d][k] = raw_real_soxl_data[d][k]
         /\ \A k \in PriceKeys :
              result.val[d][k].s = 0 => raw_real_soxl_data[d][k].s = 0
         /\ \A e \in DOMAIN raw_real_soxl_data :
              SameFactor(result.val[d], raw_real_soxl_data[d],
                         result.val[e], raw_real_soxl_data[e])

\* C2 witness: a spliced real series of two bars whose prices were rescaled
C2_Witness ==
  /\ pc = "spliced" /\ SpliceBothGiven
  /\ Cardinality(DOMAIN raw_real_soxl_data) = 2
  /\ ~REq(result.val[FirstRealDate].open, FirstRealOpen)

\* C3: when the real series' first open is <= 0, the splice fails with an
\* error and yields no scaled series.
C3_SplicePrecondition ==
  (pc # "splice" /\ SpliceBothGiven /\ FirstRealOpen.s <= 0) => pc = "splice raised"

----------------------------------------------------------------------------
(* SpecFee: the simulation under ordinary and pathological cost settings   *)

\* longest underlying series drawn
MaxFeeDays == 2

\* the days drawn: a rise and a fall
FeeDayBars == {<<4, 5>>, <<5, 4>>}

FeeUnderlyingInputs ==
  {SeriesFrom(IntBars(seq), 1) : seq \in SeqsUpTo(FeeDayBars, MaxFeeDays)}

FeeParams(annual_expense_ratio, additional_annual_borrow_cost, trading_days_per_year) ==
  [DefaultParams EXCEPT !.annual_expense_ratio = annual_expense_ratio,
                        !.additional_annual_borrow_cost = additional_annual_borrow_cost,
                        !.trading_days_per_year = trading_days_per_year]

\* 0.000001
FeeFloor == Frac(1, 1000000)

\* the cost settings drawn: the defaults, no costs, a negative borrow cost,
\* and costs of a whole year charged in one day that leave a factor of
\* -1, 0, 0.0000005, 0.000001 and 0.5
FeeParamInputs ==
  {DefaultParams,
   FeeParams(RZero, RZero, RInt(252)),
   FeeParams(Frac(95, 10000), Frac(-1, 100), RInt(252)),
   FeeParams(RInt(2), RZero, ROne),
   FeeParams(Frac(1, 2), Frac(1, 2), ROne),
   FeeParams(RSub(ROne, Frac(1, 2000000)), RZero, ROne),
   FeeParams(RSub(ROne, FeeFloor), RZero, ROne),
   FeeParams(Frac(1, 4), Frac(1, 4), ROne)}

InitFee ==
  /\ pc = "call"
  /\ underlying_data \in FeeUnderlyingInputs
  /\ params \in FeeParamInputs
  /\ sim_i = 0 /\ prev_close_t = Unused /\ prev_close_u = Unused
  /\ tracking_error_daily = Unused /\ out = Unused
  /\ result = Unused
  /\ RateUnused /\ PipeUnused /\ FileUnused /\ UpdUnused

SpecFee == InitFee /\ [][NextSim]_vars

\* 1 - annual_expense_ratio / trading_days_per_year
\*   - additional_annual_borrow_cost / trading_days_per_year
CostsOff ==
  RSub(RSub(ROne, RDiv(params.annual_expense_ratio, params.trading_days_per_year)),
       RDiv(params.additional_annual_borrow_cost, params.trading_days_per_year))

\* max(CostsOff, 0.000001)
FlooredAtMax == IF RLt(CostsOff, FeeFloor) THEN FeeFloor ELSE CostsOff

\* the same with a borrow cost that counts only when it is positive
PositiveCostsOff ==
  IF params.additional_annual_borrow_cost.s > 0 THEN CostsOff
  ELSE RSub(ROne, RDiv(params.annual_expense_ratio, params.trading_days_per_year))

\* PositiveCostsOff replaced by 0.000001 when it is zero or negative
FlooredWhenNotPositive ==
  IF PositiveCostsOff.s <= 0 THEN FeeFloor ELSE PositiveCostsOff

\* the close carried out of the step is the raw close times the multiplier
\* times (1 + extra_daily_drift)
ClosesWith(multiplier) ==
  REq(prev_close_t',
      RMul(RMul(TransitionRawClose, multiplier), RAdd(ROne, params.extra_daily_drift)))

\* C22, as stated: the daily cost multiplier applied at the close is
\* max(1 - annual_expense_ratio/trading_days_per_year
\*       - additional_annual_borrow_cost/trading_days_per_year, 0.000001)
\* for all parameter values, so it is never below 0.000001.
C22_FeeFloorIsMax ==
  [][RegularDayStored => ClosesWith(FlooredAtMax)]_vars

\* C22, amended: for trading_days_per_year > 0 the daily cost multiplier
\* applied at the close is 1 - annual_expense_ratio/trading_days_per_year
\* less additional_annual_borrow_cost/trading_days_per_year when the borrow
\* cost is positive, replaced by 0.000001 when that is zero or negative; it
\* is never zero or negative, but it is below 0.000001 when the costs leave
\* less than that.
C22_FeeFloorPositive ==
  [][RegularDayStored =>
       /\ ClosesWith(FlooredWhenNotPositive)
       /\ FlooredWhenNotPositive.s > 0]_vars

\* a regular day has been stored under costs that leave nothing, with the
\* floor as the multiplier
C22_Witness ==
  /\ pc = "loop" /\ sim_i = 3
  /\ PositiveCostsOff.s <= 0
  /\ prev_close_t.s > 0
  /\ ~REq(out[SimDates[2]].close, out[SimDates[1]].close)

\* a regular day has been stored with a multiplier below 0.000001
FeeFactorBelowFloor ==
  /\ pc = "loop" /\ sim_i = 3
  /\ PositiveCostsOff.s > 0 /\ RLt(PositiveCostsOff, FeeFloor)
  /\ prev_close_t.s > 0

\* a regular day has been stored under a negative borrow cost, which is
\* left out of the multiplier
NegativeBorrowIgnored ==
  /\ pc = "loop" /\ sim_i = 3
  /\ params.additional_annual_borrow_cost.s < 0
  /\ ~REq(PositiveCostsOff, CostsOff)

----------------------------------------------------------------------------
(* SpecTrim: the calls that calibrate with calibration_method "trimmed"    *)

\* longest underlying series drawn
MaxTrimDays == 4

\* the days drawn: a rise and a fall
TrimDayBars == {<<4, 5>>, <<5, 4>>}

TrimUnderlyingInputs ==
  {SeriesFrom(IntBars(seq), 1) : seq \in SeqsUpTo(TrimDayBars, MaxTrimDays)}

\* a real series that swings, on every date an underlying series can have
TrimReal == CalReal([i \in 1..(MaxTrimDays + 1) |-> 7 * (1 + ((3 * i) % 4))], 1)

\* a cap that no estimate reaches
TrimNoCap == RInt(1000)

\* the arguments of a "trimmed" call, without costs
TrimParams(trim_fraction, max_abs_tracking_error) ==
  [CalParams("trimmed", trim_fraction, TrimReal)
     EXCEPT !.max_abs_tracking_error = max_abs_tracking_error,
            !.annual_expense_ratio = RZero,
            !.additional_annual_borrow_cost = RZero]

\* the fractions of each tail drawn, under the cap of the SOXL run and
\* under no cap
TrimParamInputs ==
  {TrimParams(SOXL_TRIM_FRACTION, SOXL_MAX_DAILY_TRACKING_ERROR),
   TrimParams(Frac(1, 3), SOXL_MAX_DAILY_TRACKING_ERROR),
   TrimParams(Frac(1, 4), TrimNoCap),
   TrimParams(Frac(1, 3), TrimNoCap),
   TrimParams(Frac(1, 2), TrimNoCap),
   TrimParams(ROne, TrimNoCap)}

InitTrim ==
  /\ pc = "call"
  /\ underlying_data \in TrimUnderlyingInputs
  /\ params \in TrimParamInputs
  /\ sim_i = 0 /\ prev_close_t = Unused /\ prev_close_u = Unused
  /\ tracking_error_daily = Unused /\ out = Unused
  /\ result = Unused
  /\ RateUnused /\ PipeUnused /\ FileUnused /\ UpdUnused

SpecTrim == InitTrim /\ [][NextSim]_vars

\* the calibration of a "trimmed" call has run to its end on residuals
TrimCalibrated ==
  /\ pc \in {"loop", "returned"} /\ Calibrates /\ CalHasDiffs
  /\ params.calibration_method = "trimmed"

\* the residuals in ascending order
SortedResiduals == RSort(CollectedDiffs)

\* k = int(n * trim_fraction): the whole number with k <= n * trim_fraction < k + 1
TrimCount ==
  CHOOSE k \in 0..Len(CollectedDiffs) :
    /\ RLe(RInt(k), RMul(RInt(Len(CollectedDiffs)), params.trim_fraction))
    /\ RLt(RMul(RInt(Len(CollectedDiffs)), params.trim_fraction), RInt(k + 1))

\* trimming k residuals from each tail would remove every residual
TrimsEverything == 2 * TrimCount >= Len(CollectedDiffs)

\* the mean of the sorted residuals without k of them at each tail
MeanOfCore ==
  RMean(SubSeq(SortedResiduals, TrimCount + 1, Len(SortedResiduals) - TrimCount))

\* the estimate is used as capped at max_abs_tracking_error
UsedAsCapped(estimate) ==
  REq(tracking_error_daily, CapTrackingError(estimate, params.max_abs_tracking_error))

\* C25, as stated: with calibration_method 'trimmed' and n residuals the
\* estimate before capping is the mean of the sorted residuals after
\* removing k = int(n * trim_fraction) residuals from each tail; if trimming
\* would remove every residual (2k >= n), the estimate is the mean of the
\* untrimmed residual set.
C25_TrimmedFallsBackToAll ==
  TrimCalibrated =>
    UsedAsCapped(IF TrimsEverything THEN RMean(SortedResiduals) ELSE MeanOfCore)

\* C25, amended: with calibration_method 'trimmed' and n residuals the
\* estimate before capping is the mean of the sorted residuals after
\* removing k = int(n * trim_fraction) residuals from each tail; if trimming
\* would remove every residual (2k >= n), the estimate is 0.
C25_TrimmedFallsBackToZero ==
  TrimCalibrated =>
    UsedAsCapped(IF TrimsEverything THEN RZero ELSE MeanOfCore)

\* a call has trimmed one residual from each tail of three and uses the
\* mean of the rest, which is not the mean of the three and is below the cap
C25_Witness ==
  /\ TrimCalibrated
  /\ TrimCount > 0 /\ ~TrimsEverything
  /\ ~REq(MeanOfCore, RMean(SortedResiduals))
  /\ RLt(RAbs(MeanOfCore), params.max_abs_tracking_error)
  /\ REq(tracking_error_daily, MeanOfCore)

\* a call whose trimming removes every residual uses no tracking error,
\* although the mean of its residuals is not zero
EverythingTrimmed ==
  /\ TrimCalibrated /\ TrimsEverything
  /\ RMean(SortedResiduals).s # 0
  /\ tracking_error_daily = RZero

----------------------------------------------------------------------------
(* SpecYahoo: one call of download_yahoo_finance_data, an attempt at a     *)
(* time; provider holds the answers of stock.history so far                *)

\* longest frame drawn
MaxYahooRows == 3

\* a row with valid prices and one with an open of zero, dated i
YahooRowKinds == {"valid", "invalid"}
YahooRowOf(kind, i) ==
  IF kind = "valid" THEN Row(i, Some(RInt(4)), Some(RInt(5)))
  ELSE Row(i, Some(RZero), Some(RInt(5)))

YahooFrames ==
  {YahooFrame([i \in 1..Len(kinds) |-> YahooRowOf(kinds[i], i)]) :
     kinds \in SeqsUpTo(YahooRowKinds, MaxYahooRows)}

\* the answers drawn: every frame, a rate-limit exception and another one
YahooAnswers == YahooFrames \cup {YahooError("http 429"), YahooError("no such ticker")}

InitYahoo ==
  /\ pc = "yahoo"
  /\ attempt = 0
  /\ provider = <<>>
  /\ start_date = 0 /\ clock = Unused
  /\ result = Unused
  /\ SimUnused /\ RateUnused /\ PipeUnused /\ FileUnused

\* the step after the body of the loop: the next attempt, the return of the
\* body, or the return {} after the loop (lines 162-163)
YahooAfter(body) ==
  IF ~body.continue
  THEN pc' = "fetched" /\ result' = Returned(body.val) /\ UNCHANGED attempt
  ELSE IF attempt + 1 < max_retries
  THEN attempt' = attempt + 1 /\ UNCHANGED <<pc, result>>
  ELSE pc' = "fetched" /\ result' = Returned(EmptySeries) /\ attempt' = attempt + 1

\* lines 61-160: one iteration of the loop over range(max_retries)
YahooAttempt ==
  /\ pc = "yahoo"
  /\ attempt < max_retries
  /\ \E answer \in YahooAnswers :
       /\ provider' = Append(provider, answer)
       /\ YahooAfter(YahooAttemptBody(answer, attempt))
  /\ UNCHANGED <<start_date, clock, simVars, rateVars, pipeVars, fileVars>>

NextYahoo == YahooAttempt

SpecYahoo == InitYahoo /\ [][NextYahoo]_vars

\* the answer to the attempt of the step
AnswerNow == provider'[Len(provider')]

\* the rows of the answer with a price that is there and positive on both
\* sides
ValidRowsNow ==
  {i \in 1..Len(AnswerNow.df) :
     /\ AnswerNow.df[i].open # None /\ AnswerNow.df[i].close # None
     /\ AnswerNow.df[i].open[1].s > 0 /\ AnswerNow.df[i].close[1].s > 0}

\* an empty response, an all-invalid response or a rate-limit-like exception
RetriedToExhaustion ==
  IF AnswerNow.exception # None THEN AnswerNow.exception[1] \in RateLimitIndicators
  ELSE ValidRowsNow = {}

\* a response with some valid rows, but fewer than 50%
PoorResponse ==
  /\ AnswerNow.exception = None
  /\ ValidRowsNow # {} /\ 2 * Cardinality(ValidRowsNow) < Len(AnswerNow.df)

\* the step goes on to the next attempt
Retries == pc' = "yahoo" /\ attempt' = attempt + 1 /\ attempt' < max_retries

\* the step ends the call with {}
ReturnsEmpty == pc' = "fetched" /\ result' = Returned(EmptySeries)

\* the step ends the call with the bars of the valid rows, the others
\* skipped
ReturnsValidRows ==
  /\ pc' = "fetched" /\ result'.exc = "none"
  /\ DOMAIN result'.val = {AnswerNow.df[i].datetime : i \in ValidRowsNow}

\* C30: download_yahoo_finance_data performs at most 3 fetch attempts and
\* always ends returning a dict: an empty response, an all-invalid response
\* or a rate-limit-like exception is retried only while attempts remain and
\* yields {} once they are exhausted, any other exception ends the call at
\* once with {}, and a response with fewer than 50% valid rows is retried
\* while attempts remain but accepted, invalid rows skipped, on the last
\* attempt; any other response is accepted at once.
C30_YahooRetries ==
  [][pc = "yahoo" =>
       /\ attempt < 3 /\ Len(provider') <= 3
       /\ pc' = "fetched" => result'.exc = "none"
       /\ IF RetriedToExhaustion
          THEN IF attempt < 2 THEN Retries ELSE ReturnsEmpty
          ELSE IF AnswerNow.exception # None THEN ReturnsEmpty
          ELSE IF PoorResponse
          THEN IF attempt < 2 THEN Retries ELSE ReturnsValidRows
          ELSE ReturnsValidRows]_vars

\* the third attempt has accepted a response with one valid row in three
\* after two attempts that were retried
C30_Witness ==
  /\ pc = "fetched" /\ Len(provider) = max_retries
  /\ provider[max_retries].exception = None
  /\ Len(provider[max_retries].df) = 3
  /\ Cardinality(DOMAIN result.val) = 1

\* three attempts have met a rate limit and the call has returned {}
RateLimitExhausted ==
  /\ pc = "fetched" /\ Len(provider) = max_retries
  /\ \A i \in 1..max_retries : provider[i].exception = Some("http 429")
  /\ result = Returned(EmptySeries)

\* the first attempt has raised another exception and the call has
\* returned {}
OtherExceptionEnds ==
  /\ pc = "fetched" /\ Len(provider) = 1
  /\ provider[1].exception = Some("no such ticker")
  /\ result = Returned(EmptySeries)

====
